---- MODULE Spec2Model ----
(***************************************************************************)
(* Model of the nofx trading orchestrator (python port):                   *)
(*   - AutoTrader.run_cycle and the per-decision execution                 *)
(*     (src/py/trader/auto_trader.py),                                     *)
(*   - DecisionEngine response parsing and validation                      *)
(*     (src/py/decision/engine.py),                                        *)
(*   - DecisionLogger.log_decision (src/py/logger/decision_logger.py),     *)
(*   - the run loop, stop(), TraderManager.start_all/stop_all and the REST *)
(*     start/stop hooks (auto_trader.py, trader_manager.py, api/server.py).*)
(*                                                                         *)
(* Three specifications share the variables:                               *)
(*   SpecCycle : one trader's cycles, step by step, against an abstract    *)
(*               Venue whose calls may fail;                               *)
(*   SpecLife  : the run-loop tasks of one trader under start, stop,       *)
(*               timer and stop_all interleavings;                         *)
(*   SpecLog   : the trader's DecisionLogger over appends and restarts.    *)
(***************************************************************************)
EXTENDS Integers, Sequences, FiniteSets, TLC

(***************************************************************************)
(* Bounds of the model                                                     *)
(***************************************************************************)
MaxTime == 1
MaxCycles == 1
MaxDecisions == 2
MaxTasks == 3
MaxCallCount == 4
MaxRecords == 3
MaxTextLen == 3
MaxFeedLen == 2
MaxBuilds == 3
MaxLogLen == 3
MaxEquities == 3
MaxCoros == 2
MaxRows == 1
MaxSize == 1
MaxCalls == 3
MaxConnections == 3

(***************************************************************************)
(* Program constants                                                       *)
(***************************************************************************)
BtcEthLeverage == 5
AltcoinLeverage == 5
MinRiskReward == 3

EquityValues == {1000}

OpenActions == {"open_long", "open_short"}
CloseActions == {"close_long", "close_short"}
ValidActions == {"open_long", "open_short", "close_long", "close_short", "hold", "wait"}

VARIABLES
    now,               \* wall clock, datetime.now()
    stop_until,        \* AutoTrader.stop_until
    call_count,        \* AutoTrader.call_count
    cycle_number,      \* DecisionLogger.cycle_number
    logDir,            \* the decision_*.json files of the trader's directory, in append order
    pc,                \* position of run_cycle
    record_data,       \* run_cycle's record_data
    decisions,         \* FullDecision.decisions as returned by the engine
    sorted_decisions,  \* run_cycle's sorted_decisions
    idx,               \* index of the next decision of sorted_decisions to execute
    calls,             \* external calls made by the current cycle, in order
    appended,          \* records handed to DecisionLogger.log_decision by the current cycle
    venuePos,          \* (symbol, side) positions held at the venue
    cached_positions,  \* BinanceFuturesTrader.cached_positions
    equity,            \* total equity returned by get_balance
    cyclesRun,         \* number of run_cycle invocations so far (bounds the model)
    position_first_seen_time,  \* AutoTrader.position_first_seen_time
    is_running,        \* AutoTrader.is_running
    tasks,             \* the asyncio tasks running AutoTrader.run
    trader_tasks,      \* TraderManager.trader_tasks[trader_id]
    sa_pc,             \* position of TraderManager.stop_all
    sa_tasks,          \* stop_all's local list `tasks` / set `pending`
    manager,           \* TraderManager: traders, trader_tasks (as a map) and _lock
    coros,             \* the coroutines running TraderManager methods, each with its position
    database,          \* the rows Database.get_traders returns for the user
    client,            \* the WebSocketClient, its read_messages task and a close() call
    venue,             \* the exchange's side: position sizes, leverage and working SL/TP orders of the symbol
    trader,            \* the venue adapter (AutoTrader.trader): its class and its positions cache
    args,              \* arguments of the function applied on its own (SpecValidate, ...)
    result,            \* what that function returned
    cache_files        \* the candidate feeds' cache files (latest.json, oi_top_latest.json)

cycleVars == <<now, stop_until, call_count, cycle_number, logDir, pc, record_data,
               decisions, sorted_decisions, idx, calls, appended, venuePos,
               cached_positions, equity, cyclesRun, position_first_seen_time>>
lifeVars == <<is_running, tasks, trader_tasks, sa_pc, sa_tasks, manager, coros, database, client,
              venue, trader>>
fnVars == <<args, result, cache_files>>
vars == <<now, stop_until, call_count, cycle_number, logDir, pc, record_data,
          decisions, sorted_decisions, idx, calls, appended, venuePos,
          cached_positions, equity, cyclesRun, position_first_seen_time,
          is_running, tasks, trader_tasks, sa_pc, sa_tasks, manager, coros, database, client,
          venue, trader, args, result, cache_files>>

(***************************************************************************)
(* Decisions the LLM may return                                            *)
(***************************************************************************)
Decision(sym, act, lev, size, sl, tp) ==
    [symbol |-> sym, action |-> act, leverage |-> lev, position_size_usd |-> size,
     stop_loss |-> sl, take_profit |-> tp]

DecisionPool ==
    { Decision("BTCUSDT", "open_long", 5, 5000, 100, 115),
      Decision("BTCUSDT", "open_long", 50, 5000, 100, 115),
      Decision("ALTUSDT", "open_short", 3, 0, 0, 0),
      Decision("BTCUSDT", "close_long", 0, 0, 0, 0),
      Decision("BTCUSDT", "hold", 0, 0, 0, 0),
      Decision("ALTUSDT", "buy", 0, 0, 0, 0) }

RECURSIVE SeqsUpTo(_, _)
SeqsUpTo(S, n) ==
    IF n = 0 THEN {<<>>}
    ELSE LET shorter == SeqsUpTo(S, n - 1)
         IN shorter \cup {Append(s, x) : s \in {t \in shorter : Len(t) = n - 1}, x \in S}

\* The text of an LLM answer, character by character: "r" stands for any
\* character of the reasoning or of the JSON other than a space and a bracket.
Chars == {"r", " ", "[", "]"}
Texts == SeqsUpTo(Chars, MaxTextLen)

\* reasoning followed by a JSON array
ListText == <<"r", " ", "[", "]">>

\* What the LLM call produces: an error, empty content, or a text.  A free
\* text holds no decision (a balanced block in it is the empty array); the
\* array of ListText decodes to the list `items`, or does not decode.
ResponseKinds == {"llm_error", "llm_empty", "bad_json", "list"}
Responses ==
    {[kind |-> k, items |-> <<>>, text |-> <<>>] : k \in {"llm_error", "llm_empty"}}
    \cup {[kind |-> "list", items |-> <<>>, text |-> t] : t \in Texts}
    \cup {[kind |-> "bad_json", items |-> <<>>, text |-> ListText]}
    \cup {[kind |-> "list", items |-> ds, text |-> ListText] :
            ds \in SeqsUpTo(DecisionPool, MaxDecisions)}

\* str.find for one character: the first index (from 1), 0 when there is none
Find(s, c) ==
    IF \E i \in 1..Len(s) : s[i] = c
    THEN CHOOSE i \in 1..Len(s) : s[i] = c /\ \A j \in 1..(i - 1) : s[j] # c
    ELSE 0

\* str.strip
RECURSIVE StripLeft(_)
StripLeft(s) == IF s # <<>> /\ Head(s) = " " THEN StripLeft(Tail(s)) ELSE s

RECURSIVE StripRight(_)
StripRight(s) ==
    IF s # <<>> /\ s[Len(s)] = " " THEN StripRight(SubSeq(s, 1, Len(s) - 1)) ELSE s

Strip(s) == StripRight(StripLeft(s))

\* _find_matching_bracket: the index of the ']' closing the '[' at start, 0 for -1
RECURSIVE ScanBracket(_, _, _)
ScanBracket(s, i, depth) ==
    IF i > Len(s) THEN 0
    ELSE IF s[i] = "[" THEN ScanBracket(s, i + 1, depth + 1)
    ELSE IF s[i] = "]"
         THEN IF depth - 1 = 0 THEN i ELSE ScanBracket(s, i + 1, depth - 1)
    ELSE ScanBracket(s, i + 1, depth)

FindMatchingBracket(s, start) ==
    IF start > Len(s) \/ s[start] # "[" THEN 0 ELSE ScanBracket(s, start, 0)

\* _extract_cot_trace: the text before the first '[' when one stands after the
\* first character, else the whole answer; stripped
ExtractCotTraceEmpty(response) == <<>>

ExtractCotTrace(response) ==
    IF Find(response, "[") > 1
    THEN Strip(SubSeq(response, 1, Find(response, "[") - 1))
    ELSE Strip(response)

(***************************************************************************)
(* DecisionEngine._validate_decision, in exact integer arithmetic.         *)
(* max_position_value is carried doubled (1.5 x equity = 3 x equity / 2)   *)
(* and the risk-reward terms are carried times 5 (entry = sl + 0.2 x ...). *)
(***************************************************************************)
MaxLeverageForAny(symbol, btc_eth_leverage, altcoin_leverage) == btc_eth_leverage

MaxLeverageFor(symbol, btc_eth_leverage, altcoin_leverage) ==
    IF symbol \in {"BTCUSDT", "ETHUSDT"} THEN btc_eth_leverage ELSE altcoin_leverage

MaxPositionValue2(symbol, account_equity) ==
    IF symbol \in {"BTCUSDT", "ETHUSDT"} THEN account_equity * 20 ELSE account_equity * 3

Entry5(d) ==
    IF d.action = "open_long"
    THEN 5 * d.stop_loss + (d.take_profit - d.stop_loss)
    ELSE 5 * d.stop_loss - (d.stop_loss - d.take_profit)

Risk5(d) ==
    IF d.action = "open_long" THEN Entry5(d) - 5 * d.stop_loss
    ELSE 5 * d.stop_loss - Entry5(d)

Reward5(d) ==
    IF d.action = "open_long" THEN 5 * d.take_profit - Entry5(d)
    ELSE Entry5(d) - 5 * d.take_profit

\* risk_reward_ratio < 3.0 ; the ratio stays 0 when risk_percent is not positive
RiskRewardTooLow(d) ==
    \/ Risk5(d) <= 0
    \/ Reward5(d) < MinRiskReward * Risk5(d)

ValidateDecision(d, account_equity, btc_eth_leverage, altcoin_leverage) ==
    /\ d.action \in ValidActions
    /\ d.action \in OpenActions =>
         /\ ~(d.leverage <= 0 \/ d.leverage > MaxLeverageFor(d.symbol, btc_eth_leverage, altcoin_leverage))
         /\ ~(d.position_size_usd <= 0)
         /\ ~(d.position_size_usd * 200 > MaxPositionValue2(d.symbol, account_equity) * 101)
         /\ ~(d.stop_loss <= 0 \/ d.take_profit <= 0)
         /\ IF d.action = "open_long" THEN ~(d.stop_loss >= d.take_profit)
                                      ELSE ~(d.stop_loss <= d.take_profit)
         /\ ~RiskRewardTooLow(d)

\* _validate_decisions returns normally iff no decision of the list raises
ValidateDecisions(ds, account_equity, btc_eth_leverage, altcoin_leverage) ==
    \A i \in 1..Len(ds) : ValidateDecision(ds[i], account_equity, btc_eth_leverage, altcoin_leverage)

\* _extract_decisions: the list, or failure (no '[', no matching ']', JSON error)
ExtractFails(resp) ==
    \/ Find(resp.text, "[") = 0
    \/ FindMatchingBracket(resp.text, Find(resp.text, "[")) = 0
    \/ resp.kind = "bad_json"

\* _parse_full_decision_response: an extraction failure gives the empty list;
\* a validation failure is logged and the extracted list is returned as it is.
ParseFullDecisionResponse(resp, account_equity, btc_eth_leverage, altcoin_leverage) ==
    IF ExtractFails(resp) THEN <<>>
    ELSE IF ValidateDecisions(resp.items, account_equity, btc_eth_leverage, altcoin_leverage)
         THEN resp.items
         ELSE resp.items

(***************************************************************************)
(* AutoTrader._sort_decisions_by_priority                                  *)
(***************************************************************************)
RECURSIVE SelectSeqByReversed(_, _)
SelectSeqByReversed(s, S) ==
    IF s = <<>> THEN <<>>
    ELSE IF Head(s).action \in S THEN SelectSeqByReversed(Tail(s), S) \o <<Head(s)>>
         ELSE SelectSeqByReversed(Tail(s), S)

RECURSIVE SelectSeqBy(_, _)
SelectSeqBy(s, S) ==
    IF s = <<>> THEN <<>>
    ELSE IF Head(s).action \in S THEN <<Head(s)>> \o SelectSeqBy(Tail(s), S)
         ELSE SelectSeqBy(Tail(s), S)

RECURSIVE RejectSeqBy(_, _)
RejectSeqBy(s, S) ==
    IF s = <<>> THEN <<>>
    ELSE IF Head(s).action \notin S THEN <<Head(s)>> \o RejectSeqBy(Tail(s), S)
         ELSE RejectSeqBy(Tail(s), S)

SortOpensFirst(ds) ==
    SelectSeqBy(ds, OpenActions) \o SelectSeqBy(ds, CloseActions)
        \o RejectSeqBy(ds, CloseActions \cup OpenActions)

SortDecisionsByPriority(ds) ==
    SelectSeqBy(ds, CloseActions) \o SelectSeqBy(ds, OpenActions)
        \o RejectSeqBy(ds, CloseActions \cup OpenActions)


(***************************************************************************)
(* The Venue adapter's get_positions with its 15 s TTL cache: the cached   *)
(* list is served only when it is non-empty and younger than the TTL       *)
(* (whether it is younger is the environment's choice); otherwise the      *)
(* venue is asked, which may fail, and the answer replaces the cache.      *)
(***************************************************************************)
GetPositionsResults ==
    (IF cached_positions # {}
     THEN {[ok |-> TRUE, positions |-> cached_positions, cache |-> cached_positions]}
     ELSE {})
    \cup {[ok |-> TRUE, positions |-> venuePos, cache |-> venuePos],
          [ok |-> FALSE, positions |-> {}, cache |-> cached_positions]}

(***************************************************************************)
(* build_trading_context, lines 423-477: the first-seen map after a        *)
(* snapshot `positions` taken at time t: new pairs get t, pairs that are   *)
(* not in the snapshot lose their entry.                                   *)
(***************************************************************************)
NoneSeen == [k \in {} |-> 0]

UpdateFirstSeenNoCleanup(first_seen, positions, t) ==
    [k \in positions \cup DOMAIN first_seen |->
        IF k \in DOMAIN first_seen THEN first_seen[k] ELSE t]

UpdateFirstSeenRestamp(first_seen, positions, t) == [k \in positions |-> t]

UpdateFirstSeen(first_seen, positions, t) ==
    [k \in positions |-> IF k \in DOMAIN first_seen THEN first_seen[k] ELSE t]

\* datetime.now().timestamp(): time since the epoch, which does not follow the
\* changes of the local clock; it is counted in cycles
EpochMs == cyclesRun

(***************************************************************************)
(* DecisionLogger.log_decision: the counter is advanced first; the record  *)
(* is written by open(filepath, 'w') and json.dump straight into the file  *)
(* decision_<time>_cycle<n>.json.  A failure is logged and swallowed: when *)
(* open fails there is no file, when json.dump fails (or the process stops *)
(* in it) the file stays with the text written so far.  Of the record a    *)
(* file holds, its cycle_number and success are kept here.                 *)
(***************************************************************************)
RecordOf(n, rd) ==
    [cycle_number |-> n, success |-> rd.success, complete |-> TRUE]

\* a file whose JSON text is cut short: only its name can be read
PartialFile(n) ==
    [cycle_number |-> n, success |-> FALSE, complete |-> FALSE]

WriteOutcomes == {"written", "open_fails", "dump_fails"}

WriteFile(dir, n, rd, outcome) ==
    CASE outcome = "written" -> Append(dir, RecordOf(n, rd))
      [] outcome = "open_fails" -> dir
      [] outcome = "dump_fails" -> Append(dir, PartialFile(n))

LogDecision(rd, outcome) ==
    [cycle_number |-> cycle_number + 1,
     logDir |-> WriteFile(logDir, cycle_number + 1, rd, outcome)]

\* the record has no cot_trace key until the engine has answered
NoCotTrace == <<"None">>

NewRecordData ==
    [success |-> TRUE, error_message |-> "", decisions |-> <<>>, cot_trace |-> NoCotTrace]

\* an external call: the operation, its symbol, the index of the decision it was
\* made for (0: context assembly) and, for get_positions, the positions returned
\* (for the LLM call, the text of the answer, NoAnswer when the call raised)
NoAnswer == <<"None">>

Call(op, symbol, i, ret) == [op |-> op, symbol |-> symbol, i |-> i, ret |-> ret]

(***************************************************************************)
(* run_cycle, lines 260-268: the cooldown skip                             *)
(***************************************************************************)
InCooldown(t, until) == t < until

CooldownRecordSuccess(rd) == [rd EXCEPT !.error_message = "cooldown"]

CooldownRecord(rd) == [rd EXCEPT !.success = FALSE, !.error_message = "cooldown"]

CycleCooldown ==
    /\ pc = "idle"
    /\ cyclesRun < MaxCycles
    /\ InCooldown(now, stop_until)
    /\ call_count' = call_count + 1
    /\ cyclesRun' = cyclesRun + 1
    /\ calls' = <<>>
    /\ LET rd == CooldownRecord(NewRecordData)
       IN /\ record_data' = rd
          /\ appended' = <<rd>>
          /\ \E outcome \in WriteOutcomes :
               LET r == LogDecision(rd, outcome)
               IN /\ cycle_number' = r.cycle_number
                  /\ logDir' = r.logDir
    /\ decisions' = <<>>
    /\ sorted_decisions' = <<>>
    /\ idx' = 1
    /\ pc' = "returned"
    /\ UNCHANGED <<now, stop_until, venuePos, cached_positions, equity>>
    /\ UNCHANGED lifeVars
    /\ UNCHANGED fnVars
    /\ UNCHANGED position_first_seen_time

(***************************************************************************)
(* run_cycle, lines 243-277: a cycle outside the cooldown begins           *)
(***************************************************************************)
CycleBegin ==
    /\ pc = "idle"
    /\ cyclesRun < MaxCycles
    /\ ~InCooldown(now, stop_until)
    /\ call_count' = call_count + 1
    /\ cyclesRun' = cyclesRun + 1
    /\ calls' = <<>>
    /\ appended' = <<>>
    /\ record_data' = NewRecordData
    /\ decisions' = <<>>
    /\ sorted_decisions' = <<>>
    /\ idx' = 1
    /\ pc' = "context"
    /\ UNCHANGED <<now, stop_until, cycle_number, logDir, venuePos, cached_positions, equity>>
    /\ UNCHANGED lifeVars
    /\ UNCHANGED fnVars
    /\ UNCHANGED position_first_seen_time

(***************************************************************************)
(* run_cycle, lines 393-396: the cycle-level exception handler             *)
(***************************************************************************)
CycleExceptPropagates(rd, e) == [pc |-> "raised", record_data |-> rd]

CycleExcept(rd, e) ==
    [pc |-> "log", record_data |-> [rd EXCEPT !.success = FALSE, !.error_message = e]]

(***************************************************************************)
(* build_trading_context: get_balance, get_positions, the candidate pool   *)
(* (get_merged_coin_pool catches its feeds' failures; a failure of the     *)
(* pool object itself raises) and the performance analysis (caught).       *)
(***************************************************************************)
BuildContext ==
    /\ pc = "context"
    /\ \/ \* get_balance raises
          /\ calls' = calls \o <<Call("get_balance", "", 0, {})>>
          /\ LET h == CycleExcept(record_data, "get_balance")
             IN pc' = h.pc /\ record_data' = h.record_data
          /\ UNCHANGED <<cached_positions, equity, position_first_seen_time>>
       \/ \* get_positions raises
          /\ \E e \in EquityValues : equity' = e
          /\ calls' = calls \o <<Call("get_balance", "", 0, {}), Call("get_positions", "", 0, {})>>
          /\ LET h == CycleExcept(record_data, "get_positions")
             IN pc' = h.pc /\ record_data' = h.record_data
          /\ UNCHANGED <<cached_positions, position_first_seen_time>>
       \/ \* the candidate pool raises
          /\ \E e \in EquityValues : equity' = e
          /\ \E g \in {r \in GetPositionsResults : r.ok} :
               /\ cached_positions' = g.cache
               /\ position_first_seen_time' =
                      UpdateFirstSeen(position_first_seen_time, g.positions, EpochMs)
               /\ calls' = calls \o <<Call("get_balance", "", 0, {}),
                                      Call("get_positions", "", 0, g.positions),
                                      Call("pool", "", 0, {})>>
          /\ LET h == CycleExcept(record_data, "pool")
             IN pc' = h.pc /\ record_data' = h.record_data
       \/ \* the context is built
          /\ \E e \in EquityValues : equity' = e
          /\ \E g \in {r \in GetPositionsResults : r.ok} :
               /\ cached_positions' = g.cache
               /\ position_first_seen_time' =
                      UpdateFirstSeen(position_first_seen_time, g.positions, EpochMs)
               /\ calls' = calls \o <<Call("get_balance", "", 0, {}),
                                      Call("get_positions", "", 0, g.positions),
                                      Call("pool", "", 0, {})>>
          /\ pc' = "decide"
          /\ UNCHANGED record_data
    /\ UNCHANGED <<now, stop_until, call_count, cycle_number, logDir, decisions,
                   sorted_decisions, idx, appended, venuePos, cyclesRun>>
    /\ UNCHANGED lifeVars
    /\ UNCHANGED fnVars

(***************************************************************************)
(* get_full_decision (market data for the context, the LLM call, parsing   *)
(* and validation) followed by run_cycle's sort, lines 314-359             *)
(***************************************************************************)
Decide ==
    /\ pc = "decide"
    /\ \E resp \in Responses :
         /\ calls' = calls \o <<Call("market", "", 0, {}),
                                Call("llm", "", 0, IF resp.kind \in {"llm_error", "llm_empty"}
                                                   THEN NoAnswer ELSE resp.text)>>
         /\ IF resp.kind \in {"llm_error", "llm_empty"}
            THEN /\ LET h == CycleExcept(record_data, resp.kind)
                    IN pc' = h.pc /\ record_data' = h.record_data
                 /\ UNCHANGED <<decisions, sorted_decisions>>
            ELSE /\ decisions' = ParseFullDecisionResponse(resp, equity, BtcEthLeverage,
                                                            AltcoinLeverage)
                 /\ sorted_decisions' = SortDecisionsByPriority(decisions')
                 /\ pc' = "exec"
                 /\ record_data' = [record_data EXCEPT
                                      !.cot_trace = ExtractCotTrace(resp.text)]
    /\ idx' = 1
    /\ UNCHANGED <<now, stop_until, call_count, cycle_number, logDir, appended, venuePos,
                   cached_positions, equity, cyclesRun>>
    /\ UNCHANGED lifeVars
    /\ UNCHANGED fnVars
    /\ UNCHANGED position_first_seen_time


(***************************************************************************)
(* _execute_decision_with_record and the four _execute_* methods.          *)
(* `positions` is what get_positions returned to the method; md_ok,        *)
(* order_ok and sltp_ok say whether the market-data fetch, the market      *)
(* order and set_stop_loss_take_profit succeed.  The result carries the    *)
(* error raised ("" when none), the calls made after get_positions, and    *)
(* the venue's positions afterwards.                                       *)
(***************************************************************************)
SideOf(action) == IF action \in {"open_long", "close_long"} THEN "long" ELSE "short"

ExecuteOpenNoCheck(d, i, positions, md_ok, order_ok, sltp_ok) ==
    LET side == SideOf(d.action)
        key == <<d.symbol, side>>
        m == Call("market", d.symbol, i, {})
        o == Call(d.action, d.symbol, i, {})
        s == Call("set_stop_loss_take_profit", d.symbol, i, {})
    IN IF ~md_ok THEN [error |-> "market", made |-> <<m>>, venue |-> venuePos]
       ELSE IF ~order_ok THEN [error |-> "order", made |-> <<m, o>>, venue |-> venuePos]
       ELSE IF d.stop_loss > 0 /\ d.take_profit > 0
            THEN [error |-> IF sltp_ok THEN "" ELSE "sltp", made |-> <<m, o, s>>,
                  venue |-> venuePos \cup {key}]
            ELSE [error |-> "", made |-> <<m, o>>, venue |-> venuePos \cup {key}]

ExecuteOpen(d, i, positions, md_ok, order_ok, sltp_ok) ==
    LET side == SideOf(d.action)
        key == <<d.symbol, side>>
        m == Call("market", d.symbol, i, {})
        o == Call(d.action, d.symbol, i, {})
        s == Call("set_stop_loss_take_profit", d.symbol, i, {})
    IN IF key \in positions THEN [error |-> "conflict", made |-> <<>>, venue |-> venuePos]
       ELSE IF ~md_ok THEN [error |-> "market", made |-> <<m>>, venue |-> venuePos]
       ELSE IF ~order_ok THEN [error |-> "order", made |-> <<m, o>>, venue |-> venuePos]
       ELSE IF d.stop_loss > 0 /\ d.take_profit > 0
            THEN [error |-> IF sltp_ok THEN "" ELSE "sltp", made |-> <<m, o, s>>,
                  venue |-> venuePos \cup {key}]
            ELSE [error |-> "", made |-> <<m, o>>, venue |-> venuePos \cup {key}]

\* the venue fills a close only when it holds the position
ExecuteClose(d, i, positions, order_ok) ==
    LET side == SideOf(d.action)
        key == <<d.symbol, side>>
        c == Call(d.action, d.symbol, i, {})
    IN IF key \notin positions THEN [error |-> "no_position", made |-> <<>>, venue |-> venuePos]
       ELSE IF ~order_ok \/ key \notin venuePos
            THEN [error |-> "order", made |-> <<c>>, venue |-> venuePos]
       ELSE [error |-> "", made |-> <<c>>, venue |-> venuePos \ {key}]

\* one iteration of the loop of lines 366-391, as a set of possible results
ExecuteResults(d, i) ==
    IF d.action \in {"hold", "wait"}
    THEN {[error |-> "", made |-> <<>>, venue |-> venuePos, cache |-> cached_positions]}
    ELSE IF d.action \notin OpenActions \cup CloseActions
    THEN {[error |-> "unknown_action", made |-> <<>>, venue |-> venuePos,
           cache |-> cached_positions]}
    ELSE UNION {
        IF ~g.ok
        THEN {[error |-> "get_positions", made |-> <<Call("get_positions", d.symbol, i, {})>>,
               venue |-> venuePos, cache |-> g.cache]}
        ELSE { LET r == IF d.action \in OpenActions
                        THEN ExecuteOpen(d, i, g.positions, md_ok, order_ok, sltp_ok)
                        ELSE ExecuteClose(d, i, g.positions, order_ok)
               IN [error |-> r.error,
                   made |-> <<Call("get_positions", d.symbol, i, g.positions)>> \o r.made,
                   venue |-> r.venue, cache |-> g.cache]
               : md_ok \in BOOLEAN, order_ok \in BOOLEAN, sltp_ok \in BOOLEAN }
        : g \in GetPositionsResults }

\* lines 367-391: the per-action record of decision d with outcome error e
ActionRecord(d, e) ==
    [action |-> d.action, symbol |-> d.symbol, success |-> (e = ""), error |-> e]

\* lines 384-391: where the loop goes after decision i raised or returned
NextIndexAbortOnError(i, e, n) == IF e = "" THEN i + 1 ELSE n + 1

NextIndex(i, e, n) == i + 1

ExecuteDecision ==
    /\ pc = "exec"
    /\ idx <= Len(sorted_decisions)
    /\ LET d == sorted_decisions[idx]
       IN \E r \in ExecuteResults(d, idx) :
            /\ calls' = calls \o r.made
            /\ venuePos' = r.venue
            /\ cached_positions' = r.cache
            /\ record_data' = [record_data EXCEPT
                                 !.decisions = Append(@, ActionRecord(d, r.error))]
            /\ idx' = NextIndex(idx, r.error, Len(sorted_decisions))
    /\ UNCHANGED <<now, stop_until, call_count, cycle_number, logDir, pc, decisions,
                   sorted_decisions, appended, equity, cyclesRun>>
    /\ UNCHANGED lifeVars
    /\ UNCHANGED fnVars
    /\ UNCHANGED position_first_seen_time

(***************************************************************************)
(* run_cycle, lines 398-402: the record is handed to the logger            *)
(***************************************************************************)
LogRecord ==
    /\ \/ pc = "log"
       \/ pc = "exec" /\ idx > Len(sorted_decisions)
    /\ appended' = Append(appended, record_data)
    /\ \E outcome \in WriteOutcomes :
         LET r == LogDecision(record_data, outcome)
         IN /\ cycle_number' = r.cycle_number
            /\ logDir' = r.logDir
    /\ pc' = "returned"
    /\ UNCHANGED <<now, stop_until, call_count, record_data, decisions, sorted_decisions,
                   idx, calls, venuePos, cached_positions, equity, cyclesRun>>
    /\ UNCHANGED lifeVars
    /\ UNCHANGED fnVars
    /\ UNCHANGED position_first_seen_time

(***************************************************************************)
(* AutoTrader.run, lines 229-231: run_cycle has returned, its locals are   *)
(* gone, and the loop sleeps until the next cycle is due                   *)
(***************************************************************************)
LoopSleep ==
    /\ pc = "returned"
    /\ pc' = "idle"
    /\ record_data' = NewRecordData
    /\ decisions' = <<>>
    /\ sorted_decisions' = <<>>
    /\ idx' = 1
    /\ calls' = <<>>
    /\ appended' = <<>>
    /\ UNCHANGED <<now, stop_until, call_count, cycle_number, logDir, venuePos,
                   cached_positions, equity, cyclesRun>>
    /\ UNCHANGED lifeVars
    /\ UNCHANGED fnVars
    /\ UNCHANGED position_first_seen_time

(***************************************************************************)
(* The wall clock read by datetime.now() is local time: between two cycles *)
(* it may move forward or (clock adjustment, end of daylight saving) back. *)
(***************************************************************************)
ClockChange ==
    /\ pc = "idle"
    /\ \E t \in 0..MaxTime : t # now /\ now' = t
    /\ UNCHANGED <<stop_until, call_count, cycle_number, logDir, pc, record_data, decisions,
                   sorted_decisions, idx, calls, appended, venuePos, cached_positions,
                   equity, cyclesRun>>
    /\ UNCHANGED lifeVars
    /\ UNCHANGED fnVars
    /\ UNCHANGED position_first_seen_time

(***************************************************************************)
(* DecisionLogger.__init__: a logger constructed on a directory that       *)
(* already holds records (process restart, trader re-initialized) starts   *)
(* its counter at 0 whatever the counter n of the previous logger was.     *)
(***************************************************************************)
LoggerInit(n) == 0

\* no function is being applied on its own
NoCall == [fn |-> "none"]

\* a feed's cache file: missing, unreadable, or holding a list written earlier
\* (old: more than 24 h ago)
NoFile == [st |-> "missing", content |-> <<>>, old |-> FALSE]
NoFiles == [f \in {"ai500", "oi_top"} |-> NoFile]

\* WebSocketClient.__init__: no connection, reconnect on, not running; no task runs
\* read_messages and nobody has called close(). after records what happens once
\* close() has returned
NewClient ==
    [ws |-> 0, conns |-> <<>>, reconnect |-> TRUE, running |-> FALSE,
     subscribers |-> FALSE, reader |-> "unborn", held |-> 0, closer |-> "idle",
     after |-> [connected |-> FALSE, subscribed |-> FALSE]]
ClientIdle == client = NewClient

\* TraderManager.__init__, no coroutine calling a method of it, and no trader row
NewManager == [traders |-> <<>>, trader_tasks |-> <<>>, lock |-> 0]
NoCoro == [op |-> "none", pc |-> "idle", todo |-> <<>>, copy |-> {}, wait |-> {}]
ManagerIdle ==
    /\ manager = NewManager
    /\ coros = <<>>
    /\ database = <<>>

\* the adapter of a trader that trades nothing yet: no position, no working
\* order, nothing cached (None and the empty list are both falsy: one value)
NoPositions == [long |-> 0, short |-> 0, leverage |-> 0]
NewVenue == [long |-> 0, short |-> 0, leverage |-> 5, working |-> FALSE]
NewTrader(class) == [class |-> class, cached_positions |-> NoPositions, fresh |-> FALSE]
VenueIdle ==
    /\ venue = NewVenue
    /\ trader = NewTrader("binance")

LifeIdle ==
    /\ args = NoCall
    /\ result = NoCall
    /\ cache_files = NoFiles
    /\ is_running = FALSE
    /\ tasks = [t \in 1..MaxTasks |-> [st |-> "unborn", origin |-> "none"]]
    /\ trader_tasks = 0
    /\ sa_pc = "idle"
    /\ sa_tasks = {}
    /\ ManagerIdle
    /\ VenueIdle
    /\ ClientIdle

InitCycle ==
    /\ now \in 1..1
    /\ stop_until = now
    /\ call_count = 0
    /\ cycle_number = 0
    /\ logDir = <<>>
    /\ pc = "idle"
    /\ record_data = NewRecordData
    /\ decisions = <<>>
    /\ sorted_decisions = <<>>
    /\ idx = 1
    /\ calls = <<>>
    /\ appended = <<>>
    /\ venuePos \in SUBSET {<<"BTCUSDT", "long">>, <<"ALTUSDT", "short">>}
    /\ cached_positions = {}
    /\ equity \in EquityValues
    /\ cyclesRun = 0
    /\ position_first_seen_time = NoneSeen
    /\ LifeIdle

NextCycle ==
    \/ CycleCooldown
    \/ CycleBegin
    \/ BuildContext
    \/ Decide
    \/ ExecuteDecision
    \/ LogRecord
    \/ LoopSleep
    \/ ClockChange

SpecCycle == InitCycle /\ [][NextCycle]_vars

(***************************************************************************)
(* The DecisionLogger of one trader over its life: log_decision is called  *)
(* once by every cycle with that cycle's record, and the logger is         *)
(* constructed again on the same directory when the process restarts.      *)
(***************************************************************************)
\* the records run_cycle hands over: success, cooldown, or a cycle-level failure
CycleRecords ==
    {NewRecordData, CooldownRecord(NewRecordData)}
    \cup {CycleExcept(NewRecordData, e).record_data :
            e \in {"get_balance", "get_positions", "pool", "llm_error", "llm_empty"}}

logOnlyUnchanged ==
    UNCHANGED <<now, stop_until, call_count, pc, record_data, decisions, sorted_decisions,
                idx, calls, appended, venuePos, cached_positions, equity>>

\* DecisionLogger.log_decision
LogDecisionCall ==
    /\ cyclesRun < MaxRecords
    /\ cyclesRun' = cyclesRun + 1
    /\ \E rd \in CycleRecords : \E outcome \in WriteOutcomes :
         LET r == LogDecision(rd, outcome)
         IN /\ cycle_number' = r.cycle_number
            /\ logDir' = r.logDir
    /\ logOnlyUnchanged
    /\ UNCHANGED lifeVars
    /\ UNCHANGED fnVars
    /\ UNCHANGED position_first_seen_time

\* DecisionLogger.__init__ on the existing directory
LoggerRestart ==
    /\ cycle_number > 0
    /\ cycle_number' = LoggerInit(cycle_number)
    /\ UNCHANGED <<logDir, cyclesRun>>
    /\ logOnlyUnchanged
    /\ UNCHANGED lifeVars
    /\ UNCHANGED fnVars
    /\ UNCHANGED position_first_seen_time

InitLog ==
    /\ now = 1
    /\ stop_until = 1
    /\ call_count = 0
    /\ cycle_number = 0
    /\ logDir = <<>>
    /\ pc = "idle"
    /\ record_data = NewRecordData
    /\ decisions = <<>>
    /\ sorted_decisions = <<>>
    /\ idx = 1
    /\ calls = <<>>
    /\ appended = <<>>
    /\ venuePos = {}
    /\ cached_positions = {}
    /\ equity \in EquityValues
    /\ cyclesRun = 0
    /\ position_first_seen_time = NoneSeen
    /\ LifeIdle

NextLog ==
    \/ LogDecisionCall
    \/ LoggerRestart

SpecLog == InitLog /\ [][NextLog]_vars


(***************************************************************************)
(* Functions applied on their own: every variable of the cycle and of the  *)
(* run loop stays at its value after construction.                         *)
(***************************************************************************)
CycleIdle ==
    /\ now = 1
    /\ stop_until = 1
    /\ call_count = 0
    /\ cycle_number = 0
    /\ logDir = <<>>
    /\ pc = "idle"
    /\ record_data = NewRecordData
    /\ decisions = <<>>
    /\ sorted_decisions = <<>>
    /\ idx = 1
    /\ calls = <<>>
    /\ appended = <<>>
    /\ venuePos = {}
    /\ cached_positions = {}
    /\ equity \in EquityValues
    /\ cyclesRun = 0
    /\ position_first_seen_time = NoneSeen

RestIdle ==
    /\ CycleIdle
    /\ is_running = FALSE
    /\ tasks = [t \in 1..MaxTasks |-> [st |-> "unborn", origin |-> "none"]]
    /\ trader_tasks = 0
    /\ sa_pc = "idle"
    /\ sa_tasks = {}
    /\ ManagerIdle
    /\ VenueIdle
    /\ ClientIdle

RestUnchanged == UNCHANGED <<cycleVars, lifeVars>>

(***************************************************************************)
(* DecisionEngine._validate_decision applied to one decision               *)
(***************************************************************************)
ValSymbols == {"BTCUSDT", "ETHUSDT", "ALTUSDT"}
ValActions == ValidActions \cup {"buy"}
ValLeverages == {-1, 0, 1, 5, 6}
ValSizes == {-1, 0, 1515, 1516, 5000, 5050, 5051, 10100, 10110}
ValPrices == {0, 100, 110, 115}
ValEquities == {500, 1000}
ValBtcEthLeverages == {5, 6}
ValAltcoinLeverages == {1, 5}

ValidateArgs ==
    {[fn |-> "validate", d |-> Decision(sym, act, lev, size, sl, tp), account_equity |-> e,
      btc_eth_leverage |-> b, altcoin_leverage |-> a] :
        sym \in ValSymbols, act \in ValActions, lev \in ValLeverages, size \in ValSizes,
        sl \in ValPrices, tp \in ValPrices, e \in ValEquities,
        b \in ValBtcEthLeverages, a \in ValAltcoinLeverages}

\* ok is FALSE when _validate_decision raises
ValidateCall ==
    /\ args.fn = "validate"
    /\ result.fn = "none"
    /\ result' = [fn |-> "validate",
                  ok |-> ValidateDecision(args.d, args.account_equity, args.btc_eth_leverage,
                                          args.altcoin_leverage)]
    /\ UNCHANGED <<args, cache_files>>
    /\ RestUnchanged

InitValidate ==
    /\ args \in ValidateArgs
    /\ result = NoCall
    /\ cache_files = NoFiles
    /\ RestIdle

NextValidate == ValidateCall

SpecValidate == InitValidate /\ [][NextValidate]_vars

(***************************************************************************)
(* DecisionEngine._fetch_market_data_for_context applied to one context.   *)
(* A snapshot is what MarketDataFetcher.get returns for a symbol, or its   *)
(* failure; open_interest.latest is carried in millions of contracts, so   *)
(* oi x price is the open-interest value in millions of USD.  The fetcher  *)
(* always returns an OIData object (zeros when its request failed), which  *)
(* is truthy, and prices are positive.                                     *)
(***************************************************************************)
MinOiValueMillions == 15

MdSymbols == {"BTCUSDT", "ALTUSDT"}
MdOpenInterests == {0, 7, 8, 15}
MdPrices == {1, 2}
Snapshots ==
    {[ok |-> TRUE, open_interest |-> o, current_price |-> p] :
        o \in MdOpenInterests, p \in MdPrices}
    \cup {[ok |-> FALSE, open_interest |-> 0, current_price |-> 1]}

MarketDataArgs ==
    {[fn |-> "market_data", positions |-> ps, candidate_coins |-> cs, market |-> m] :
        ps \in SUBSET MdSymbols, cs \in SeqsUpTo(MdSymbols, 2), m \in [MdSymbols -> Snapshots]}

\* _calculate_max_candidates
CalculateMaxCandidates(candidate_coins) == Len(candidate_coins)

\* the liquidity test of one fetched snapshot
TooIlliquid(data) ==
    /\ data.current_price > 0
    /\ data.open_interest * data.current_price < MinOiValueMillions

\* the symbols of ctx.market_data_map
FetchMarketDataFilterAll(positions, candidate_coins, market) ==
    LET symbol_set == positions \cup
            {candidate_coins[i] : i \in 1..CalculateMaxCandidates(candidate_coins)}
    IN {symbol \in symbol_set : market[symbol].ok /\ ~TooIlliquid(market[symbol])}

FetchMarketDataForContext(positions, candidate_coins, market) ==
    LET symbol_set == positions \cup
            {candidate_coins[i] : i \in 1..CalculateMaxCandidates(candidate_coins)}
    IN {symbol \in symbol_set :
            /\ market[symbol].ok
            /\ ~(symbol \notin positions /\ TooIlliquid(market[symbol]))}

FetchMarketDataCall ==
    /\ args.fn = "market_data"
    /\ result.fn = "none"
    /\ result' = [fn |-> "market_data",
                  market_data_map |-> FetchMarketDataForContext(args.positions,
                                          args.candidate_coins, args.market)]
    /\ UNCHANGED <<args, cache_files>>
    /\ RestUnchanged

InitMarketData ==
    /\ args \in MarketDataArgs
    /\ result = NoCall
    /\ cache_files = NoFiles
    /\ RestIdle

NextMarketData == FetchMarketDataCall

SpecMarketData == InitMarketData /\ [][NextMarketData]_vars

(***************************************************************************)
(* _fetch_market_data_for_context with MarketDataFetcher.get inside it:    *)
(* each symbol's snapshot is built from the upstream answers (K-lines,     *)
(* open-interest history), the loop visits the fetch set in the set's      *)
(* iteration order, and the OI Top statistics are loaded afterwards.       *)
(* Open interest is carried in millions of contracts; of OIData only       *)
(* `latest` is kept.                                                       *)
(***************************************************************************)
OiValues == {7, 15}
\* the answer of /futures/data/openInterestHist: a failure, or a list of points
OiResponses ==
    {[kind |-> "error", data |-> <<>>]}
    \cup {[kind |-> "ok", data |-> d] : d \in SeqsUpTo(OiValues, 2)}
SymbolUpstreams ==
    {[klines_ok |-> TRUE, close |-> p, oi |-> r] : p \in MdPrices, r \in OiResponses}
    \cup {[klines_ok |-> FALSE, close |-> 1, oi |-> [kind |-> "error", data |-> <<>>]]}

\* Optional[OIData]: None, or an OIData object
NoOIData == [present |-> FALSE, latest |-> 0]
OIData(latest) == [present |-> TRUE, latest |-> latest]

\* MarketDataFetcher._get_open_interest_history
GetOpenInterestHistory(resp) ==
    IF resp.kind = "error" THEN OIData(0)
    ELSE IF Len(resp.data) > 0 THEN OIData(resp.data[Len(resp.data)])
    ELSE OIData(0)

\* MarketDataFetcher.get: _get_klines raises, the other requests do not
Get(up) ==
    IF ~up.klines_ok
    THEN [raised |-> TRUE, current_price |-> 0, open_interest |-> NoOIData]
    ELSE [raised |-> FALSE, current_price |-> up.close,
          open_interest |-> GetOpenInterestHistory(up.oi)]

\* `data.open_interest and ...`: None is falsy, an OIData object is truthy
Truthy(open_interest) == open_interest.present

\* the orders in which a set of at most two symbols is iterated
Orders(S) == {s \in SeqsUpTo(S, 2) : Len(s) = Cardinality(S) /\ {s[i] : i \in 1..Len(s)} = S}

SymbolSet(positions, candidate_coins) ==
    positions \cup {candidate_coins[i] : i \in 1..CalculateMaxCandidates(candidate_coins)}

RECURSIVE FetchLoopAbort(_, _, _, _)
FetchLoopAbort(order, positions, upstream, map) ==
    IF order = <<>> THEN [raised |-> FALSE, market_data_map |-> map]
    ELSE LET symbol == Head(order)
             data == Get(upstream[symbol])
             is_existing_position == symbol \in positions
         IN IF data.raised
            THEN [raised |-> TRUE, market_data_map |-> map]
            ELSE IF /\ ~is_existing_position
                    /\ Truthy(data.open_interest)
                    /\ data.current_price > 0
                    /\ data.open_interest.latest * data.current_price < MinOiValueMillions
            THEN FetchLoopAbort(Tail(order), positions, upstream, map)
            ELSE FetchLoopAbort(Tail(order), positions, upstream,
                     [s \in DOMAIN map \cup {symbol} |->
                        IF s = symbol THEN data ELSE map[s]])

\* lines 187-212: the loop over symbol_set; a failure and an illiquid symbol
\* both `continue`
RECURSIVE FetchLoop(_, _, _, _)
FetchLoop(order, positions, upstream, map) ==
    IF order = <<>> THEN [raised |-> FALSE, market_data_map |-> map]
    ELSE LET symbol == Head(order)
             data == Get(upstream[symbol])
             is_existing_position == symbol \in positions
         IN IF data.raised
            THEN FetchLoop(Tail(order), positions, upstream, map)
            ELSE IF /\ ~is_existing_position
                    /\ Truthy(data.open_interest)
                    /\ data.current_price > 0
                    /\ data.open_interest.latest * data.current_price < MinOiValueMillions
            THEN FetchLoop(Tail(order), positions, upstream, map)
            ELSE FetchLoop(Tail(order), positions, upstream,
                     [s \in DOMAIN map \cup {symbol} |->
                        IF s = symbol THEN data ELSE map[s]])

\* lines 218-233: get_oi_top_positions, with its failure caught and logged
LoadOiTop(oi_top) == IF oi_top.ok THEN oi_top.symbols ELSE {}

FetchContextArgs ==
    {[fn |-> "fetch_context", positions |-> ps, candidate_coins |-> cs, order |-> o,
      upstream |-> u, oi_top |-> t] :
        ps \in SUBSET MdSymbols, cs \in SeqsUpTo(MdSymbols, 2),
        o \in SeqsUpTo(MdSymbols, 2), u \in [MdSymbols -> SymbolUpstreams],
        t \in {[ok |-> TRUE, symbols |-> {"BTCUSDT"}], [ok |-> FALSE, symbols |-> {}]}}

FetchContextCall ==
    /\ args.fn = "fetch_context"
    /\ result.fn = "none"
    /\ LET loop == FetchLoop(args.order, args.positions, args.upstream, <<>>)
       IN result' = [fn |-> "fetch_context", raised |-> loop.raised,
                     market_data_map |-> loop.market_data_map,
                     oi_top_data_map |-> IF loop.raised THEN {} ELSE LoadOiTop(args.oi_top)]
    /\ UNCHANGED <<args, cache_files>>
    /\ RestUnchanged

InitFetchContext ==
    /\ args \in {a \in FetchContextArgs :
                    a.order \in Orders(SymbolSet(a.positions, a.candidate_coins))}
    /\ result = NoCall
    /\ cache_files = NoFiles
    /\ RestIdle

NextFetchContext == FetchContextCall

SpecFetchContext == InitFetchContext /\ [][NextFetchContext]_vars

(***************************************************************************)
(* CoinPoolManager: the scored feed (get_coin_pool) and the OI-growth feed *)
(* (get_oi_top_positions), each with its upstream API and its cache file.  *)
(* A symbol as a feed spells it: its base, whether it ends in USDT,        *)
(* whether it is upper case, whether blanks surround it.                   *)
(***************************************************************************)
Sym(base, suffix, upper, padded) ==
    [base |-> base, suffix |-> suffix, upper |-> upper, padded |-> padded]

\* normalize_symbol: strip, upper, append USDT unless it ends with it
NormalizeSymbol(symbol) == Sym(symbol.base, TRUE, TRUE, FALSE)

CoinInfo(pair, score) == [pair |-> pair, score |-> score, is_available |-> TRUE]
OIPosition(symbol) == [symbol |-> symbol]

DefaultMainstreamCoins ==
    <<Sym("BTC", TRUE, TRUE, FALSE), Sym("ETH", TRUE, TRUE, FALSE),
      Sym("SOL", TRUE, TRUE, FALSE), Sym("BNB", TRUE, TRUE, FALSE),
      Sym("XRP", TRUE, TRUE, FALSE), Sym("DOGE", TRUE, TRUE, FALSE),
      Sym("ADA", TRUE, TRUE, FALSE), Sym("HYPE", TRUE, TRUE, FALSE)>>

\* _convert_symbols_to_coins
ConvertSymbolsToCoins(symbols) == [i \in 1..Len(symbols) |-> CoinInfo(symbols[i], 0)]

Feeds == {"ai500", "oi_top"}
FeedCoins == {CoinInfo(Sym("BTC", TRUE, TRUE, FALSE), 2), CoinInfo(Sym("SOL", FALSE, FALSE, TRUE), 1)}
FeedPositions == {OIPosition(Sym("BTC", TRUE, TRUE, FALSE)), OIPosition(Sym("SOL", TRUE, TRUE, FALSE))}
FeedItems(f) == IF f = "ai500" THEN FeedCoins ELSE FeedPositions

CorruptFile == [st |-> "corrupt", content |-> <<>>, old |-> FALSE]
\* what the upstream API answers after the transport's retries
Upstreams(f) ==
    {[ok |-> FALSE, data |-> <<>>]}
    \cup {[ok |-> TRUE, data |-> l] : l \in SeqsUpTo(FeedItems(f), MaxFeedLen)}

\* _fetch_coin_pool / _fetch_oi_top: an empty list raises like a failed request
FetchFeed(up) == [ok |-> up.ok /\ up.data # <<>>, value |-> up.data]

\* _save_coin_pool_cache / _save_oi_top_cache: open(path, "w") and json.dump
SaveOutcomes == {"ok", "open_failed", "write_failed"}
SaveFeedCache(file, value, save) ==
    IF save = "ok" THEN [st |-> "ok", content |-> value, old |-> FALSE]
    ELSE IF save = "open_failed" THEN file
    ELSE CorruptFile

\* _load_coin_pool_cache / _load_oi_top_cache: an old cache is logged and used
LoadFeedCacheFreshOnly(file) ==
    [ok |-> file.st = "ok" /\ ~file.old, value |-> file.content]

LoadFeedCache(file) == [ok |-> file.st = "ok", value |-> file.content]

\* the try/except of get_coin_pool and of get_oi_top_positions
FetchOrFallback(up, save, file, fallback) ==
    LET f == FetchFeed(up)
        file2 == IF f.ok THEN SaveFeedCache(file, f.value, save) ELSE file
        c == LoadFeedCache(file2)
    IN IF f.ok /\ save = "ok" THEN [raised |-> FALSE, value |-> f.value, file |-> file2]
       ELSE IF c.ok THEN [raised |-> FALSE, value |-> c.value, file |-> file2]
       ELSE [raised |-> FALSE, value |-> fallback, file |-> file2]

GetCoinPool(use_default_coins, coin_pool_api_url, up, save, file) ==
    IF use_default_coins \/ ~coin_pool_api_url
    THEN [raised |-> FALSE, value |-> ConvertSymbolsToCoins(DefaultMainstreamCoins),
          file |-> file]
    ELSE FetchOrFallback(up, save, file, ConvertSymbolsToCoins(DefaultMainstreamCoins))

GetOiTopPositions(oi_top_api_url, up, save, file) ==
    IF ~oi_top_api_url THEN [raised |-> FALSE, value |-> <<>>, file |-> file]
    ELSE FetchOrFallback(up, save, file, <<>>)

PoolArgs ==
    {[fn |-> "pool", use_default_coins |-> u, coin_pool_api_url |-> a, oi_top_api_url |-> o] :
        u \in BOOLEAN, a \in BOOLEAN, o \in BOOLEAN}

GetCoinPoolCall ==
    /\ args.fn = "pool"
    /\ \E up \in Upstreams("ai500") : \E save \in SaveOutcomes :
         LET r == GetCoinPool(args.use_default_coins, args.coin_pool_api_url, up, save,
                              cache_files["ai500"])
         IN /\ result' = [fn |-> "get_coin_pool", upstream_ok |-> FetchFeed(up).ok,
                          before |-> cache_files["ai500"], raised |-> r.raised,
                          value |-> r.value]
            /\ cache_files' = [cache_files EXCEPT !["ai500"] = r.file]
    /\ UNCHANGED args
    /\ RestUnchanged

GetOiTopPositionsCall ==
    /\ args.fn = "pool"
    /\ \E up \in Upstreams("oi_top") : \E save \in SaveOutcomes :
         LET r == GetOiTopPositions(args.oi_top_api_url, up, save, cache_files["oi_top"])
         IN /\ result' = [fn |-> "get_oi_top_positions", upstream_ok |-> FetchFeed(up).ok,
                          before |-> cache_files["oi_top"], raised |-> r.raised,
                          value |-> r.value]
            /\ cache_files' = [cache_files EXCEPT !["oi_top"] = r.file]
    /\ UNCHANGED args
    /\ RestUnchanged

\* a day passes over a cache file
CacheAges ==
    /\ args.fn = "pool"
    /\ \E f \in Feeds :
         /\ cache_files[f].st = "ok"
         /\ ~cache_files[f].old
         /\ cache_files' = [cache_files EXCEPT ![f].old = TRUE]
    /\ UNCHANGED <<args, result>>
    /\ RestUnchanged

InitPool ==
    /\ args \in PoolArgs
    /\ result = NoCall
    /\ cache_files \in {[f \in Feeds |-> IF f = "ai500" THEN a ELSE o] :
                            a \in {NoFile, CorruptFile}, o \in {NoFile, CorruptFile}}
    /\ RestIdle

NextPool ==
    \/ GetCoinPoolCall
    \/ GetOiTopPositionsCall
    \/ CacheAges

SpecPool == InitPool /\ [][NextPool]_vars

(***************************************************************************)
(* One call of a feed operation with its upstream answer, the outcome of   *)
(* the cache write and the cache file it finds all given beforehand.       *)
(***************************************************************************)
\* the cache files a feed can find: none, a damaged one, or a list saved earlier
FeedFiles(f) ==
    {NoFile, CorruptFile}
    \cup {[st |-> "ok", content |-> l, old |-> o] :
            l \in SeqsUpTo(FeedItems(f), MaxFeedLen) \ {<<>>}, o \in BOOLEAN}

FeedArgs ==
    {[fn |-> "feed", feed |-> f, use_default_coins |-> u, api_url |-> a, up |-> up,
      save |-> save] :
        f \in Feeds, u \in BOOLEAN, a \in BOOLEAN,
        up \in Upstreams("ai500") \cup Upstreams("oi_top"), save \in SaveOutcomes}

FeedCall ==
    /\ args.fn = "feed"
    /\ result.fn = "none"
    /\ LET file == cache_files[args.feed]
           r == IF args.feed = "ai500"
                THEN GetCoinPool(args.use_default_coins, args.api_url, args.up, args.save,
                                 file)
                ELSE GetOiTopPositions(args.api_url, args.up, args.save, file)
       IN /\ result' = [fn |-> "feed", raised |-> r.raised, value |-> r.value]
          /\ cache_files' = [cache_files EXCEPT ![args.feed] = r.file]
    /\ UNCHANGED args
    /\ RestUnchanged

InitFeed ==
    /\ args \in {a \in FeedArgs :
                    /\ a.up \in Upstreams(a.feed)
                    /\ a.feed = "oi_top" => ~a.use_default_coins}
    /\ result = NoCall
    /\ cache_files \in {[f \in Feeds |-> IF f = args.feed THEN file ELSE NoFile] :
                            file \in FeedFiles(args.feed)}
    /\ RestIdle

NextFeed == FeedCall

SpecFeed == InitFeed /\ [][NextFeed]_vars

(***************************************************************************)
(* CoinPoolManager.get_merged_coin_pool applied to what the two feeds      *)
(* return during the call.                                                 *)
(***************************************************************************)
MergeCoins ==
    {CoinInfo(p, sc) :
        p \in {Sym("BTC", TRUE, TRUE, FALSE), Sym("BTC", FALSE, FALSE, TRUE),
               Sym("SOL", TRUE, TRUE, FALSE)},
        sc \in {1, 2}}
MergePositions ==
    {OIPosition(p) :
        p \in {Sym("BTC", TRUE, TRUE, FALSE), Sym("SOL", FALSE, FALSE, FALSE),
               Sym("ETH", TRUE, TRUE, FALSE)}}
Ai500Limits == {0, 1, 2, 20}

MergeArgs ==
    {[fn |-> "merge", coin_pool |-> cs, oi_top_positions |-> ps, ai500_limit |-> n] :
        cs \in SeqsUpTo(MergeCoins, MaxFeedLen), ps \in SeqsUpTo(MergePositions, MaxFeedLen),
        n \in Ai500Limits}

\* list.sort(key=score, reverse=True): stable, equal scores keep their order
RECURSIVE InsertByScore(_, _)
InsertByScore(c, sorted) ==
    IF sorted = <<>> THEN <<c>>
    ELSE IF Head(sorted).score >= c.score THEN <<Head(sorted)>> \o InsertByScore(c, Tail(sorted))
    ELSE <<c>> \o sorted

RECURSIVE SortByScoreDesc(_)
SortByScoreDesc(coins) ==
    IF coins = <<>> THEN <<>>
    ELSE InsertByScore(coins[Len(coins)], SortByScoreDesc(SubSeq(coins, 1, Len(coins) - 1)))

\* get_top_rated_coins: raises when no coin is available
GetTopRatedCoins(coins, limit) ==
    LET available_coins == SelectSeq(coins, LAMBDA c : c.is_available)
        sorted == SortByScoreDesc(available_coins)
        max_count == IF limit < Len(sorted) THEN limit ELSE Len(sorted)
    IN IF available_coins = <<>> THEN [raised |-> TRUE, value |-> <<>>]
       ELSE [raised |-> FALSE,
             value |-> [i \in 1..max_count |-> NormalizeSymbol(sorted[i].pair)]]

\* get_oi_top_symbols
GetOiTopSymbols(positions) == [i \in 1..Len(positions) |-> NormalizeSymbol(positions[i].symbol)]

\* the two loops that fill symbol_sources
RECURSIVE AddSources(_, _, _)
AddSources(symbols, tag, symbol_sources) ==
    IF symbols = <<>> THEN symbol_sources
    ELSE LET symbol == Head(symbols)
             added == IF symbol \in DOMAIN symbol_sources
                      THEN [symbol_sources EXCEPT ![symbol] = Append(@, tag)]
                      ELSE [x \in DOMAIN symbol_sources \cup {symbol} |->
                               IF x = symbol THEN <<tag>> ELSE symbol_sources[x]]
         IN AddSources(Tail(symbols), tag, added)

\* list(set): every member once, in an order the program does not control
RECURSIVE SetToList(_)
SetToList(S) ==
    IF S = {} THEN <<>>
    ELSE LET x == CHOOSE y \in S : TRUE IN <<x>> \o SetToList(S \ {x})

GetMergedCoinPool(coin_pool, oi_top_positions, ai500_limit) ==
    LET top == GetTopRatedCoins(coin_pool, ai500_limit)
        ai500_symbols == IF top.raised THEN <<>> ELSE top.value
        oi_top_symbols == GetOiTopSymbols(oi_top_positions)
        symbol_set == {ai500_symbols[i] : i \in 1..Len(ai500_symbols)}
                      \cup {oi_top_symbols[i] : i \in 1..Len(oi_top_symbols)}
        symbol_sources == AddSources(oi_top_symbols, "oi_top",
                              AddSources(ai500_symbols, "ai500", [x \in {} |-> <<>>]))
    IN [ai500_coins |-> coin_pool, oi_top_coins |-> oi_top_positions,
        all_symbols |-> SetToList(symbol_set), symbol_sources |-> symbol_sources]

GetMergedCoinPoolCall ==
    /\ args.fn = "merge"
    /\ result.fn = "none"
    /\ result' = [fn |-> "merge",
                  merged |-> GetMergedCoinPool(args.coin_pool, args.oi_top_positions,
                                               args.ai500_limit)]
    /\ UNCHANGED <<args, cache_files>>
    /\ RestUnchanged

InitMerge ==
    /\ args \in MergeArgs
    /\ result = NoCall
    /\ cache_files = NoFiles
    /\ RestIdle

NextMerge == GetMergedCoinPoolCall

SpecMerge == InitMerge /\ [][NextMerge]_vars

(***************************************************************************)
(* The context builds of one trader over successive cycles: every cycle    *)
(* calls build_trading_context once; what the cycle does afterwards, and   *)
(* the market, change the positions held at the venue.  Here `calls` keeps *)
(* the external calls of all the builds, three per completed build.        *)
(***************************************************************************)
ContextPositions ==
    {<<"BTCUSDT", "long">>, <<"BTCUSDT", "short">>, <<"ALTUSDT", "short">>}

contextOnlyUnchanged ==
    UNCHANGED <<now, stop_until, cycle_number, logDir, decisions, sorted_decisions, idx,
                appended, equity>>

\* run_cycle is entered and reaches its call of build_trading_context
ContextCycleBegin ==
    /\ pc = "idle"
    /\ cyclesRun < MaxBuilds
    /\ call_count' = call_count + 1
    /\ cyclesRun' = cyclesRun + 1
    /\ record_data' = NewRecordData
    /\ pc' = "context"
    /\ UNCHANGED <<calls, venuePos, cached_positions, position_first_seen_time>>
    /\ contextOnlyUnchanged
    /\ UNCHANGED lifeVars
    /\ UNCHANGED fnVars

\* the cycle ends; until the next one the positions at the venue change
ContextCycleEnd ==
    /\ pc \in {"decide", "log"}
    /\ pc' = "idle"
    /\ \E v \in SUBSET ContextPositions : venuePos' = v
    /\ UNCHANGED <<call_count, cyclesRun, record_data, calls, cached_positions,
                   position_first_seen_time>>
    /\ contextOnlyUnchanged
    /\ UNCHANGED lifeVars
    /\ UNCHANGED fnVars

InitContext ==
    /\ now = 1
    /\ stop_until = 1
    /\ call_count = 0
    /\ cycle_number = 0
    /\ logDir = <<>>
    /\ pc = "idle"
    /\ record_data = NewRecordData
    /\ decisions = <<>>
    /\ sorted_decisions = <<>>
    /\ idx = 1
    /\ calls = <<>>
    /\ appended = <<>>
    /\ venuePos \in SUBSET ContextPositions
    /\ cached_positions = {}
    /\ equity \in EquityValues
    /\ cyclesRun = 0
    /\ position_first_seen_time = NoneSeen
    /\ LifeIdle

NextContext ==
    \/ ContextCycleBegin
    \/ BuildContext
    \/ ContextCycleEnd

SpecContext == InitContext /\ [][NextContext]_vars

(***************************************************************************)
(* DecisionLogger.get_latest_records and analyze_performance over the      *)
(* files of one log directory, oldest first.  A record holds the action    *)
(* records of its cycle; the timestamp of an action is the number of the   *)
(* cycle that wrote it.                                                    *)
(***************************************************************************)
LoggedAction(action, success, price, quantity, leverage) ==
    [action |-> action, symbol |-> "BTCUSDT", success |-> success, price |-> price,
     quantity |-> quantity, leverage |-> leverage, timestamp |-> 0]

LogFile(ds) == [complete |-> TRUE, decisions |-> ds]

\* the files a cycle may leave: no action, an open, another open, a close, a
\* failed close, an open of the other side, a hold, a close followed by an
\* open, and a file whose text was cut short
AnalyzeFiles ==
    {LogFile(<<>>),
     LogFile(<<LoggedAction("open_long", TRUE, 100, 1, 5)>>),
     LogFile(<<LoggedAction("open_long", TRUE, 110, 2, 3)>>),
     LogFile(<<LoggedAction("close_long", TRUE, 120, 1, 5)>>),
     LogFile(<<LoggedAction("close_long", FALSE, 0, 0, 5)>>),
     LogFile(<<LoggedAction("open_short", TRUE, 100, 1, 5)>>),
     LogFile(<<LoggedAction("hold", TRUE, 0, 0, 0)>>),
     LogFile(<<LoggedAction("close_long", TRUE, 120, 1, 5),
               LoggedAction("open_long", TRUE, 110, 2, 3)>>),
     [complete |-> FALSE, decisions |-> <<>>]}

LookbackCycles == {1, 2}

\* run_cycle stamps each action record with the time it was executed at
Stamp(file, t) ==
    [file EXCEPT !.decisions =
        [k \in 1..Len(file.decisions) |-> [file.decisions[k] EXCEPT !.timestamp = t]]]

\* the n newest files are read, the unreadable ones skipped, oldest first
IsComplete(file) == file.complete

GetLatestRecords(files, n) ==
    LET first == IF Len(files) > n THEN Len(files) - n + 1 ELSE 1
    IN SelectSeq(SubSeq(files, first, Len(files)), IsComplete)

RECURSIVE ActionsOf(_)
ActionsOf(records) ==
    IF records = <<>> THEN <<>>
    ELSE Head(records).decisions \o ActionsOf(Tail(records))

ActionSide(act) ==
    IF act \in {"open_long", "close_long"} THEN "long"
    ELSE IF act \in {"open_short", "close_short"} THEN "short"
    ELSE ""

NoOpenPositions == [k \in {} |-> 0]

OpenPosition(a) ==
    [side |-> ActionSide(a.action), open_price |-> a.price, open_time |-> a.timestamp,
     quantity |-> a.quantity, leverage |-> a.leverage]

PutOpen(open_positions, a) ==
    LET pos_key == <<a.symbol, ActionSide(a.action)>>
    IN [k \in DOMAIN open_positions \cup {pos_key} |->
           IF k = pos_key THEN OpenPosition(a) ELSE open_positions[k]]

PopOpen(open_positions, a) ==
    [k \in DOMAIN open_positions \ {<<a.symbol, ActionSide(a.action)>>} |->
        open_positions[k]]

\* lines 173-205: the pre-fill pass over the actions of all_records
RECURSIVE Prefill(_, _)
Prefill(actions, open_positions) ==
    IF actions = <<>> THEN open_positions
    ELSE LET a == Head(actions)
         IN IF ~a.success \/ ActionSide(a.action) = ""
            THEN Prefill(Tail(actions), open_positions)
            ELSE IF a.action \in {"open_long", "open_short"}
                 THEN Prefill(Tail(actions), PutOpen(open_positions, a))
                 ELSE Prefill(Tail(actions), PopOpen(open_positions, a))

TradeOutcome(a, open_pos) ==
    [symbol |-> a.symbol, side |-> ActionSide(a.action), quantity |-> open_pos.quantity,
     leverage |-> open_pos.leverage, open_price |-> open_pos.open_price,
     close_price |-> a.price, open_time |-> open_pos.open_time,
     close_time |-> a.timestamp]

\* lines 207-336: the walk over the actions of the window's records
RECURSIVE WindowWalk(_, _, _)
WindowWalk(actions, open_positions, recent_trades) ==
    IF actions = <<>> THEN recent_trades
    ELSE LET a == Head(actions)
             pos_key == <<a.symbol, ActionSide(a.action)>>
         IN IF ~a.success \/ ActionSide(a.action) = ""
            THEN WindowWalk(Tail(actions), open_positions, recent_trades)
            ELSE IF a.action \in {"open_long", "open_short"}
                 THEN WindowWalk(Tail(actions), PutOpen(open_positions, a), recent_trades)
                 ELSE IF pos_key \in DOMAIN open_positions
                      THEN WindowWalk(Tail(actions), PopOpen(open_positions, a),
                                      Append(recent_trades,
                                             TradeOutcome(a, open_positions[pos_key])))
                      ELSE WindowWalk(Tail(actions), open_positions, recent_trades)

\* the records the pre-fill pass reads
PrefillRecords(records, all_records) == all_records

AnalyzePerformance(files, lookback_cycles) ==
    LET records == GetLatestRecords(files, lookback_cycles)
        all_records == GetLatestRecords(files, lookback_cycles * 3)
        open_positions ==
            IF Len(all_records) > Len(records)
            THEN Prefill(ActionsOf(PrefillRecords(records, all_records)), NoOpenPositions)
            ELSE NoOpenPositions
        trades == IF records = <<>> THEN <<>>
                  ELSE WindowWalk(ActionsOf(records), open_positions, <<>>)
    IN [fn |-> "analyze", total_trades |-> Len(trades), trades |-> trades]

\* a cycle writes its record and the next context build analyzes the log
AnalyzeAfterAppend ==
    /\ args.fn = "analyze"
    /\ Len(args.files) < MaxLogLen
    /\ \E file \in AnalyzeFiles :
         LET files == Append(args.files, Stamp(file, Len(args.files) + 1))
         IN /\ args' = [args EXCEPT !.files = files]
            /\ result' = AnalyzePerformance(files, args.lookback_cycles)
    /\ UNCHANGED cache_files
    /\ RestUnchanged

InitAnalyze ==
    /\ \E n \in LookbackCycles : args = [fn |-> "analyze", files |-> <<>>, lookback_cycles |-> n]
    /\ result = AnalyzePerformance(<<>>, 1)
    /\ cache_files = NoFiles
    /\ RestIdle

NextAnalyze == AnalyzeAfterAppend

SpecAnalyze == InitAnalyze /\ [][NextAnalyze]_vars

(***************************************************************************)
(* DecisionLogger._calculate_sharpe_ratio over the total_balance values of *)
(* the window's records (0 when a record has none), in exact arithmetic:   *)
(* a return is a fraction <<numerator, denominator>> with a positive       *)
(* denominator.  The value returned is 0, +999, -999 or the quotient       *)
(* mean / std_dev.                                                         *)
(***************************************************************************)
Balances == {0, 1, 2, 3, 4}

IsPositive(e) == e > 0

\* lines 419-423: the period returns of consecutive equities
PeriodReturns(equities) ==
    [i \in 1..(Len(equities) - 1) |-> <<equities[i + 1] - equities[i], equities[i]>>]

RECURSIVE SumReturns(_)
SumReturns(returns) ==
    IF returns = <<>> THEN <<0, 1>>
    ELSE LET r == Head(returns)
             rest == SumReturns(Tail(returns))
         IN <<r[1] * rest[2] + rest[1] * r[2], r[2] * rest[2]>>

MeanReturn(returns) ==
    LET total == SumReturns(returns) IN <<total[1], total[2] * Len(returns)>>

\* the variance is a mean of squares: it is 0 exactly when every return
\* equals the mean
StdDevIsZero(returns) ==
    LET mean_return == MeanReturn(returns)
    IN \A i \in 1..Len(returns) :
         returns[i][1] * mean_return[2] = mean_return[1] * returns[i][2]

SingleReturn(returns) == Len(returns) = 1

CalculateSharpeRatio(balances) ==
    LET equities == SelectSeq(balances, IsPositive)
        returns == PeriodReturns(equities)
        mean_return == MeanReturn(returns)
    IN IF Len(balances) < 2 THEN "0"
       ELSE IF Len(equities) < 2 THEN "0"
       ELSE IF returns = <<>> THEN "0"
       ELSE IF SingleReturn(returns) THEN "0"
       ELSE IF StdDevIsZero(returns)
            THEN IF mean_return[1] > 0 THEN "+999"
                 ELSE IF mean_return[1] < 0 THEN "-999"
                 ELSE "0"
            ELSE "mean/std_dev"

SharpeArgs ==
    {[fn |-> "sharpe", balances |-> b] : b \in SeqsUpTo(Balances, MaxEquities)}

CalculateSharpeRatioCall ==
    /\ args.fn = "sharpe"
    /\ result = NoCall
    /\ result' = [fn |-> "sharpe", sharpe_ratio |-> CalculateSharpeRatio(args.balances)]
    /\ UNCHANGED <<args, cache_files>>
    /\ RestUnchanged

InitSharpe ==
    /\ args \in SharpeArgs
    /\ result = NoCall
    /\ cache_files = NoFiles
    /\ RestIdle

NextSharpe == CalculateSharpeRatioCall

SpecSharpe == InitSharpe /\ [][NextSharpe]_vars

(***************************************************************************)
(* AutoTrader.initialize applied to a config                               *)
(***************************************************************************)
\* the abstract methods of the Trader interface
AbstractMethods ==
    {"get_balance", "get_positions", "open_long", "open_short", "close_long",
     "close_short", "set_leverage", "set_margin_mode", "get_market_price",
     "set_stop_loss", "set_take_profit", "cancel_all_orders", "format_quantity"}
\* the methods of it each adapter class defines
OtherAdapterMethods ==
    {"get_balance", "get_positions", "open_long", "open_short", "close_long",
     "close_short", "set_leverage", "format_quantity"}
MethodsOf == [binance |-> AbstractMethods, hyperliquid |-> OtherAdapterMethods,
              aster |-> OtherAdapterMethods, okx |-> OtherAdapterMethods]
\* a subclass of an ABC is instantiated only if it defines every abstract
\* method; otherwise its constructor call raises TypeError
Instantiable == {class \in DOMAIN MethodsOf : AbstractMethods \subseteq MethodsOf[class]}

\* AutoTrader.initialize: the error it raises or "ok", and the LLM client it
\* set up (the adapter's constructor is taken to accept the credentials)
SupportedExchanges == {"binance", "hyperliquid", "aster", "okx"}
McpClientFor(ai_model) ==
    CASE ai_model = "custom" -> "custom"
      [] ai_model = "qwen" -> "qwen"
      [] OTHER -> "deepseek"
Initialize(config) ==
    IF config.initial_balance <= 0
    THEN [outcome |-> "ValueError", client |-> "none"]
    ELSE IF config.exchange \notin SupportedExchanges
    THEN [outcome |-> "ValueError", client |-> "none"]
    ELSE IF config.exchange \notin Instantiable
    THEN [outcome |-> "TypeError", client |-> "none"]
    ELSE [outcome |-> "ok", client |-> McpClientFor(config.ai_model)]

AiModelNames == {"deepseek", "qwen", "custom", "openrouter", "gpt"}
ExchangeNames == SupportedExchanges \cup {"bybit"}
InitialBalances == {-1, 0, 1000}

InitializeArgs ==
    {[fn |-> "initialize",
      config |-> [id |-> 1, ai_model |-> m, exchange |-> e, initial_balance |-> b]] :
        m \in AiModelNames, e \in ExchangeNames, b \in InitialBalances}

InitializeCall ==
    /\ args.fn = "initialize"
    /\ result = NoCall
    /\ result' = [fn |-> "initialize", initialized |-> Initialize(args.config)]
    /\ UNCHANGED <<args, cache_files>>
    /\ RestUnchanged

InitInitialize ==
    /\ args \in InitializeArgs
    /\ result = NoCall
    /\ cache_files = NoFiles
    /\ RestIdle

NextInitialize == InitializeCall

SpecInitialize == InitInitialize /\ [][NextInitialize]_vars

(***************************************************************************)
(* TraderManager: loading the user's traders from the database, start_all, *)
(* stop_all and the getters, each run as a coroutine of one event loop.    *)
(* A coroutine's pc names the `async with self._lock` block it is about to *)
(* enter ("check"), the block it is inside ("check_locked"), or the await  *)
(* it is suspended in ("get_ai_models").                                   *)
(***************************************************************************)
CoroIds == 1..MaxCoros

\* the user's ai_models and exchanges rows; an id outside the table is a missing row
AiModels == [m_on |-> [enabled |-> TRUE, provider |-> "deepseek"],
             m_off |-> [enabled |-> FALSE, provider |-> "qwen"]]
Exchanges == [binance |-> [enabled |-> TRUE], okx |-> [enabled |-> FALSE]]

\* a row of get_traders; the SELECT has no `enabled` column
TraderRow(id, model, exchange, balance) ==
    [id |-> id, ai_model_id |-> model, exchange_id |-> exchange, initial_balance |-> balance]
RowKinds(id) ==
    { TraderRow(id, "m_on", "binance", 1000),
      TraderRow(id, "m_off", "binance", 1000),
      TraderRow(id, "m_gone", "binance", 1000),
      TraderRow(id, "m_on", "okx", 1000),
      TraderRow(id, "m_on", "gone", 1000),
      TraderRow(id, "m_on", "binance", 0) }
\* the traders table: up to MaxRows rows, the k-th with id k
Tables ==
    UNION { { rows \in [1..n -> UNION {RowKinds(k) : k \in 1..n}] :
                \A k \in 1..n : rows[k].id = k } : n \in 0..MaxRows }

\* the fields of the AutoTraderConfig dataclass
ConfigFields ==
    {"id", "name", "ai_model", "exchange", "testnet", "binance_api_key",
     "binance_secret_key", "hyperliquid_private_key", "hyperliquid_wallet_address",
     "aster_private_key", "aster_wallet_address", "okx_api_key", "okx_api_secret",
     "okx_passphrase", "deepseek_key", "qwen_key", "custom_api_url", "custom_api_key",
     "custom_model_name", "use_default_coins", "coin_pool_api_url", "oi_top_api_url",
     "scan_interval_minutes", "initial_balance", "btc_eth_leverage", "altcoin_leverage",
     "max_daily_loss", "max_drawdown", "stop_trading_hours", "is_cross_margin"}
\* the keyword arguments _add_trader_from_db passes to AutoTraderConfig(...)
PassedKeywords ==
    {"id", "name", "ai_model", "exchange", "scan_interval_minutes", "initial_balance",
     "btc_eth_leverage", "altcoin_leverage", "max_daily_loss", "max_drawdown",
     "stop_trading_hours", "is_cross_margin", "use_default_coins", "coin_pool_api_url",
     "oi_top_api_url", "default_coins", "trading_coins", "system_prompt_template",
     "custom_prompt", "override_base_prompt"}
\* a dataclass __init__ raises TypeError on a keyword that is not one of its fields
ConfigConstructed == PassedKeywords \subseteq ConfigFields

\* the config _add_trader_from_db builds from the three rows
ConfigOf(trader_cfg) ==
    [id |-> trader_cfg.id,
     ai_model |-> AiModels[trader_cfg.ai_model_id].provider,
     exchange |-> trader_cfg.exchange_id,
     initial_balance |-> trader_cfg.initial_balance]

ManagerOps == {"load_traders_from_database", "load_user_traders", "start_all", "stop_all", "get_trader",
               "get_all_traders", "get_trader_status", "get_all_trader_status"}
LockedPc == [check |-> "check_locked", add |-> "add_locked", copy |-> "copy_locked",
             store |-> "store_locked", count |-> "count_locked", tasks |-> "tasks_locked",
             clear |-> "clear_locked", get |-> "get_locked"]
AtLock == DOMAIN LockedPc
InLock == {LockedPc[p] : p \in AtLock}
Awaits == {"get_traders", "get_ai_models", "get_exchanges", "wait"}
\* the already-loaded check of load_user_traders keeps the lock over get_ai_models
LockBodyEndLate(p) == p \in InLock \ {"check_locked"}

\* the steps at which an `async with self._lock` block ends
LockBodyEnd(p) == p \in InLock

managerOnlyUnchanged ==
    UNCHANGED <<cycleVars, is_running, tasks, trader_tasks, sa_pc, sa_tasks, fnVars, database, client,
                venue, trader>>

Returned == NoCoro
\* the head of a loader's loop over the rows still to do; load_user_traders
\* first checks under the lock whether the row's trader is loaded already
LoopHead(co, todo) ==
    IF todo = <<>> THEN Returned
    ELSE [co EXCEPT !.pc = IF co.op = "load_user_traders" THEN "check" ELSE "get_ai_models",
                    !.todo = todo]
Continue(co) == LoopHead(co, Tail(co.todo))
MinOf(S) == CHOOSE x \in S : \A y \in S : x <= y
\* the head of start_all's loop: create_task for the next trader of traders_copy
StartLoopHead(co, copy) ==
    IF copy = {} THEN [co EXCEPT !.pc = "count", !.copy = {}]
    ELSE [co EXCEPT !.pc = "store", !.copy = copy]

\* a method is called
Begin(c, op) ==
    /\ coros[c].pc = "idle"
    /\ coros' = [coros EXCEPT ![c] =
         [NoCoro EXCEPT !.op = op,
                        !.pc = CASE op \in {"load_traders_from_database", "load_user_traders"}
                                      -> "get_traders"
                                 [] op \in {"start_all", "stop_all"} -> "copy"
                                 [] OTHER -> "get"]]
    /\ UNCHANGED manager
    /\ managerOnlyUnchanged

\* asyncio.Lock.acquire: a free lock is taken, a held one suspends the caller
Acquire(c) ==
    /\ coros[c].pc \in AtLock
    /\ manager.lock = 0
    /\ manager' = [manager EXCEPT !.lock = c]
    /\ coros' = [coros EXCEPT ![c].pc = LockedPc[coros[c].pc]]
    /\ managerOnlyUnchanged

\* _add_trader_from_db from its check under the lock to its return or raise, and
\* the loader's `except Exception: continue`; nothing in it suspends
AddTraderFromDb(c, trader_cfg) ==
    IF trader_cfg.id \in DOMAIN manager.traders THEN manager.traders
    ELSE IF ~ConfigConstructed THEN manager.traders
    ELSE IF Initialize(ConfigOf(trader_cfg)).outcome # "ok" THEN manager.traders
    ELSE [i \in DOMAIN manager.traders \cup {trader_cfg.id} |->
            IF i = trader_cfg.id THEN [by |-> c, is_running |-> FALSE]
            ELSE manager.traders[i]]

\* trader.stop() on every trader of traders_copy
StopEach(traders, copy) ==
    [i \in DOMAIN traders |->
       IF i \in copy THEN [traders[i] EXCEPT !.is_running = FALSE] ELSE traders[i]]

\* the body of an `async with self._lock` block and the code after it up to the
\* next block, await or return
Release(c) ==
    /\ coros[c].pc \in InLock
    /\ manager.lock = c
    /\ LET co == coros[c]
           lk == IF LockBodyEnd(co.pc) THEN 0 ELSE c
       IN CASE co.pc = "check_locked" ->
                 /\ manager' = [manager EXCEPT !.lock = lk]
                 /\ coros' = [coros EXCEPT ![c] =
                      IF Head(co.todo).id \in DOMAIN manager.traders
                      THEN Continue(co)
                      ELSE [co EXCEPT !.pc = "get_ai_models"]]
            [] co.pc = "add_locked" ->
                 /\ manager' = [manager EXCEPT !.lock = lk,
                                  !.traders = AddTraderFromDb(c, Head(co.todo))]
                 /\ coros' = [coros EXCEPT ![c] = Continue(co)]
            [] co.pc = "copy_locked" /\ co.op = "start_all" ->
                 /\ manager' = [manager EXCEPT !.lock = lk]
                 /\ coros' = [coros EXCEPT ![c] = StartLoopHead(co, DOMAIN manager.traders)]
            [] co.pc = "store_locked" ->
                 /\ manager' = [manager EXCEPT !.lock = lk,
                       !.trader_tasks = [i \in DOMAIN manager.trader_tasks \cup {MinOf(co.copy)} |-> c]]
                 /\ coros' = [coros EXCEPT ![c] = StartLoopHead(co, co.copy \ {MinOf(co.copy)})]
            [] co.pc = "count_locked" ->
                 /\ manager' = [manager EXCEPT !.lock = lk]
                 /\ coros' = [coros EXCEPT ![c] = Returned]
            [] co.pc = "copy_locked" /\ co.op = "stop_all" ->
                 /\ manager' = [manager EXCEPT !.lock = lk,
                       !.traders = StopEach(manager.traders, DOMAIN manager.traders)]
                 /\ coros' = [coros EXCEPT ![c] = [co EXCEPT !.pc = "tasks"]]
            [] co.pc = "tasks_locked" ->
                 /\ manager' = [manager EXCEPT !.lock = lk]
                 /\ coros' = [coros EXCEPT ![c] =
                      IF DOMAIN manager.trader_tasks # {}
                      THEN [co EXCEPT !.pc = "wait", !.wait = DOMAIN manager.trader_tasks]
                      ELSE [co EXCEPT !.pc = "clear"]]
            [] co.pc = "clear_locked" ->
                 /\ manager' = [manager EXCEPT !.lock = lk, !.trader_tasks = <<>>]
                 /\ coros' = [coros EXCEPT ![c] = Returned]
            [] co.pc = "get_locked" ->
                 /\ manager' = [manager EXCEPT !.lock = lk]
                 /\ coros' = [coros EXCEPT ![c] = Returned]
    /\ managerOnlyUnchanged

\* an await returns: a database call of a loader, or stop_all's
\* asyncio.wait (with the cancel and gather of what is still pending)
Resume(c) ==
    /\ coros[c].pc \in Awaits
    /\ LET co == coros[c]
       IN coros' = [coros EXCEPT ![c] =
            CASE co.pc = "get_traders" -> LoopHead(co, database)
              [] co.pc = "get_ai_models" ->
                   LET id == Head(co.todo).ai_model_id
                   IN IF id \notin DOMAIN AiModels THEN Continue(co)
                      ELSE IF ~AiModels[id].enabled THEN Continue(co)
                      ELSE [co EXCEPT !.pc = "get_exchanges"]
              [] co.pc = "get_exchanges" ->
                   LET id == Head(co.todo).exchange_id
                   IN IF id \notin DOMAIN Exchanges THEN Continue(co)
                      ELSE IF ~Exchanges[id].enabled THEN Continue(co)
                      ELSE [co EXCEPT !.pc = "add"]
              [] co.pc = "wait" -> [co EXCEPT !.pc = "clear", !.wait = {}]]
    /\ UNCHANGED manager
    /\ managerOnlyUnchanged

InitManager ==
    /\ CycleIdle
    /\ is_running = FALSE
    /\ tasks = [t \in 1..MaxTasks |-> [st |-> "unborn", origin |-> "none"]]
    /\ trader_tasks = 0
    /\ sa_pc = "idle"
    /\ sa_tasks = {}
    /\ manager = NewManager
    /\ coros = [c \in CoroIds |-> NoCoro]
    /\ database \in Tables
    /\ VenueIdle
    /\ ClientIdle
    /\ args = NoCall
    /\ result = NoCall
    /\ cache_files = NoFiles

NextManager ==
    \/ \E c \in CoroIds, op \in ManagerOps : Begin(c, op)
    \/ \E c \in CoroIds : Acquire(c)
    \/ \E c \in CoroIds : Release(c)
    \/ \E c \in CoroIds : Resume(c)

SpecManager == InitManager /\ [][NextManager]_vars

(***************************************************************************)
(* The venue adapters (BinanceFuturesTrader, AsterTrader) applied to one   *)
(* symbol: each method is one step that sends its requests to the venue.   *)
(* A request fails or succeeds as the network and the venue decide.  Only  *)
(* an adapter class that can be instantiated has an object to call.        *)
(***************************************************************************)
AdapterClasses == {"binance", "aster"}
Sides == {"long", "short"}
Leverages == {5, 10}
Quantities == 0..MaxSize
\* which of a call's requests go through
RequestOutcomes == [{"cancel", "positions", "leverage", "order"} -> BOOLEAN]

venueOnlyUnchanged ==
    UNCHANGED <<cycleVars, is_running, tasks, trader_tasks, sa_pc, sa_tasks, manager,
                coros, database, client, cache_files>>

\* what futures_position_information shows: entries with positionAmt = 0 are
\* skipped, so the symbol's leverage is seen only while a position is held
Snapshot(ve) ==
    IF ve.long = 0 /\ ve.short = 0 THEN NoPositions
    ELSE [long |-> ve.long, short |-> ve.short, leverage |-> ve.leverage]

\* `if self.cached_positions and self.positions_cache_time`: an empty list is falsy
CacheUsable(tr) ==
    /\ tr.cached_positions # NoPositions
    /\ tr.fresh

\* get_positions: the list returned (or the raise), the adapter and the requests sent
GetPositions(tr, ve, o) ==
    IF tr.class = "binance" /\ CacheUsable(tr)
    THEN [ret |-> tr.cached_positions, raised |-> FALSE, tr |-> tr, trace |-> <<>>]
    ELSE IF ~o["positions"]
    THEN [ret |-> NoPositions, raised |-> TRUE, tr |-> tr, trace |-> <<"get_positions">>]
    ELSE [ret |-> Snapshot(ve), raised |-> FALSE,
          tr |-> IF tr.class = "binance"
                 THEN [tr EXCEPT !.cached_positions = Snapshot(ve), !.fresh = TRUE]
                 ELSE tr,
          trace |-> <<"get_positions">>]

\* cancel_all_orders: a failure is logged and swallowed
CancelAllOrders(ve, o) ==
    IF o["cancel"] THEN [ve EXCEPT !.working = FALSE] ELSE ve

\* set_leverage
SetLeverage(tr, ve, leverage, o) ==
    LET change == IF o["leverage"]
                  THEN [raised |-> FALSE, ve |-> [ve EXCEPT !.leverage = leverage]]
                  ELSE [raised |-> TRUE, ve |-> ve]
    IN IF tr.class = "aster"
       THEN [raised |-> change.raised, tr |-> tr, ve |-> change.ve,
             trace |-> <<"change_leverage">>]
       ELSE LET gp == GetPositions(tr, ve, o)
                current_leverage == gp.ret.leverage
            IN IF gp.raised
               THEN [raised |-> TRUE, tr |-> gp.tr, ve |-> ve, trace |-> gp.trace]
               ELSE IF current_leverage = leverage /\ current_leverage > 0
               THEN [raised |-> FALSE, tr |-> gp.tr, ve |-> ve, trace |-> gp.trace]
               ELSE [raised |-> change.raised, tr |-> gp.tr, ve |-> change.ve,
                     trace |-> gp.trace \o
                               (IF change.raised THEN <<"change_leverage">>
                                ELSE <<"change_leverage", "sleep">>)]

\* the venue's answer to a market order that opens quantity on a side
OpenFills(ve, side, quantity, o) ==
    o["order"] /\ quantity > 0 /\ ve[side] + quantity <= MaxSize
\* the venue's answer to a market order that closes quantity of a side
CloseFills(ve, side, quantity, o) ==
    o["order"] /\ quantity > 0 /\ quantity <= ve[side]

\* open_long / open_short
Open(tr, ve, side, quantity, leverage, o) ==
    LET ve1 == IF tr.class = "binance" THEN CancelAllOrders(ve, o) ELSE ve
        first == IF tr.class = "binance" THEN <<"cancel_all_orders">> ELSE <<>>
        sl == SetLeverage(tr, ve1, leverage, o)
        upto == first \o <<"set_leverage">> \o sl.trace
    IN IF sl.raised
       THEN [raised |-> TRUE, leverage_raised |-> TRUE, tr |-> sl.tr, ve |-> sl.ve,
             trace |-> upto, working_at_order |-> FALSE, held |-> ve[side], filled |-> 0]
       ELSE IF OpenFills(sl.ve, side, quantity, o)
       THEN [raised |-> FALSE, leverage_raised |-> FALSE, tr |-> sl.tr,
             ve |-> [sl.ve EXCEPT ![side] = @ + quantity],
             trace |-> upto \o <<"market_order">>,
             working_at_order |-> sl.ve.working, held |-> ve[side], filled |-> quantity]
       ELSE [raised |-> TRUE, leverage_raised |-> FALSE, tr |-> sl.tr, ve |-> sl.ve,
             trace |-> upto \o <<"market_order">>,
             working_at_order |-> sl.ve.working, held |-> ve[side], filled |-> 0]

\* close_long / close_short
Close(tr, ve, side, quantity, o) ==
    LET infer == tr.class = "binance" /\ quantity = 0
        gp == IF infer THEN GetPositions(tr, ve, o)
              ELSE [ret |-> NoPositions, raised |-> FALSE, tr |-> tr, trace |-> <<>>]
        qty == IF infer THEN gp.ret[side] ELSE quantity
        none == [raised |-> TRUE, leverage_raised |-> FALSE, tr |-> gp.tr, ve |-> ve,
                 trace |-> gp.trace, working_at_order |-> FALSE, held |-> ve[side],
                 filled |-> 0]
    IN IF gp.raised THEN none
       ELSE IF infer /\ qty = 0 THEN none
       ELSE IF ~CloseFills(ve, side, qty, o)
       THEN [none EXCEPT !.trace = gp.trace \o <<"market_order">>]
       ELSE LET ve1 == [ve EXCEPT ![side] = @ - qty]
            IN [raised |-> FALSE, leverage_raised |-> FALSE, tr |-> gp.tr,
                ve |-> IF tr.class = "binance" THEN CancelAllOrders(ve1, o) ELSE ve1,
                trace |-> gp.trace \o <<"market_order">> \o
                          (IF tr.class = "binance" THEN <<"cancel_all_orders">> ELSE <<>>),
                working_at_order |-> ve.working, held |-> ve[side], filled |-> qty]

\* what a call leaves in `result`: n counts the open, close and set_leverage calls
CallResult(fn, r) ==
    [fn |-> fn, n |-> (IF result = NoCall THEN 0 ELSE result.n) + 1, raised |-> r.raised,
     leverage_raised |-> r.leverage_raised, trace |-> r.trace,
     working_at_order |-> r.working_at_order, held |-> r.held, filled |-> r.filled]
CallsLeft == IF result = NoCall THEN TRUE ELSE result.n < MaxCalls

OpenCall ==
    /\ CallsLeft
    /\ \E side \in Sides, quantity \in Quantities \ {0}, leverage \in Leverages,
          o \in RequestOutcomes :
         LET r == Open(trader, venue, side, quantity, leverage, o)
         IN /\ args' = [fn |-> "open", side |-> side, quantity |-> quantity,
                        leverage |-> leverage]
            /\ result' = CallResult("open", r)
            /\ trader' = r.tr
            /\ venue' = r.ve
    /\ venueOnlyUnchanged

CloseCall ==
    /\ CallsLeft
    /\ \E side \in Sides, quantity \in Quantities, o \in RequestOutcomes :
         LET r == Close(trader, venue, side, quantity, o)
         IN /\ args' = [fn |-> "close", side |-> side, quantity |-> quantity,
                        leverage |-> 0]
            /\ result' = CallResult("close", r)
            /\ trader' = r.tr
            /\ venue' = r.ve
    /\ venueOnlyUnchanged

SetLeverageCall ==
    /\ CallsLeft
    /\ \E leverage \in Leverages, o \in RequestOutcomes :
         LET r == SetLeverage(trader, venue, leverage, o)
         IN /\ args' = [fn |-> "set_leverage", side |-> "none", quantity |-> 0,
                        leverage |-> leverage]
            /\ result' = CallResult("set_leverage",
                                   [raised |-> r.raised, leverage_raised |-> r.raised,
                                    trace |-> r.trace, working_at_order |-> FALSE,
                                    held |-> 0, filled |-> 0])
            /\ trader' = r.tr
            /\ venue' = r.ve
    /\ venueOnlyUnchanged

\* set_stop_loss / set_take_profit: a protective order starts working
SetStopLoss ==
    /\ venue.long + venue.short > 0
    /\ ~venue.working
    /\ venue' = [venue EXCEPT !.working = TRUE]
    /\ UNCHANGED <<trader, args, result>>
    /\ venueOnlyUnchanged

\* a working stop-loss or take-profit order triggers at the venue: it closes
\* the whole position of its side
StopTriggers ==
    /\ venue.working
    /\ \E side \in Sides :
         /\ venue[side] > 0
         /\ venue' = [venue EXCEPT ![side] = 0]
    /\ UNCHANGED <<trader, args, result>>
    /\ venueOnlyUnchanged

\* cache_duration (15 s) passes since positions_cache_time
CacheExpires ==
    /\ trader.fresh
    /\ trader' = [trader EXCEPT !.fresh = FALSE]
    /\ UNCHANGED <<venue, args, result>>
    /\ venueOnlyUnchanged

InitVenue ==
    /\ CycleIdle
    /\ is_running = FALSE
    /\ tasks = [t \in 1..MaxTasks |-> [st |-> "unborn", origin |-> "none"]]
    /\ trader_tasks = 0
    /\ sa_pc = "idle"
    /\ sa_tasks = {}
    /\ ManagerIdle
    /\ ClientIdle
    /\ venue = NewVenue
    /\ trader \in {NewTrader(class) : class \in AdapterClasses \cap Instantiable}
    /\ args = NoCall
    /\ result = NoCall
    /\ cache_files = NoFiles

NextVenue ==
    \/ OpenCall
    \/ CloseCall
    \/ SetLeverageCall
    \/ SetStopLoss
    \/ StopTriggers
    \/ CacheExpires

SpecVenue == InitVenue /\ [][NextVenue]_vars

(***************************************************************************)
(* AutoTrader._execute_decision_with_record against the venue adapter:     *)
(* one decision of run_cycle's loop (lines 365-391) is one step, with the  *)
(* adapter calls it makes and the per-action record it appends.            *)
(***************************************************************************)
\* which of the step's requests go through
ExecuteOutcomes ==
    [{"cancel", "positions", "leverage", "order", "market", "stop_loss", "take_profit"}
        -> BOOLEAN]
Prices == {0, 1}

\* self.trader.set_stop_loss_take_profit(...): BinanceFuturesTrader has no such
\* attribute; AsterTrader posts the two orders and lets a failure out; OKXTrader
\* catches every failure and returns; HyperliquidTrader only logs a warning
SetStopLossTakeProfit(tr, ve, stop_loss, take_profit, o) ==
    LET sl_fails == stop_loss > 0 /\ ~o["stop_loss"]
        tp_fails == take_profit > 0 /\ ~o["take_profit"]
        sl == IF stop_loss > 0 /\ ~sl_fails THEN {"stop_loss"} ELSE {}
        tp == IF take_profit > 0 /\ ~sl_fails /\ ~tp_fails THEN {"take_profit"} ELSE {}
        after == [ve EXCEPT !.working = @ \/ (sl \cup tp # {})]
    IN CASE tr.class = "binance" ->
                [raised |-> TRUE, error |-> "AttributeError", installed |-> {}, ve |-> ve]
         [] tr.class = "hyperliquid" ->
                [raised |-> FALSE, error |-> "", installed |-> {}, ve |-> ve]
         [] tr.class = "okx" ->
                [raised |-> FALSE, error |-> "", installed |-> sl \cup tp, ve |-> after]
         [] OTHER ->
                [raised |-> sl_fails \/ tp_fails,
                 error |-> IF sl_fails \/ tp_fails THEN "HTTPStatusError" ELSE "",
                 installed |-> sl \cup tp, ve |-> after]

\* _execute_open_long / _execute_open_short
ExecuteOpenOn(tr, ve, d, o) ==
    LET side == SideOf(d.action)
        gp == GetPositions(tr, ve, o)
        op == Open(gp.tr, ve, side, d.quantity, d.leverage, o)
        sltp == SetStopLossTakeProfit(op.tr, op.ve, d.stop_loss, d.take_profit, o)
        none == [raised |-> TRUE, error |-> "get_positions", tr |-> gp.tr, ve |-> ve,
                 ordered |-> FALSE, filled |-> 0, installed |-> {}]
    IN IF gp.raised THEN none
       ELSE IF gp.ret[side] > 0 THEN [none EXCEPT !.error = "ValueError"]
       ELSE IF ~o["market"] THEN [none EXCEPT !.error = "market"]
       ELSE IF op.raised
       THEN [none EXCEPT !.error = "order", !.tr = op.tr, !.ve = op.ve,
                         !.ordered = ~op.leverage_raised]
       ELSE IF d.stop_loss > 0 /\ d.take_profit > 0
       THEN [raised |-> sltp.raised, error |-> sltp.error, tr |-> op.tr, ve |-> sltp.ve,
             ordered |-> TRUE, filled |-> op.filled, installed |-> sltp.installed]
       ELSE [raised |-> FALSE, error |-> "", tr |-> op.tr, ve |-> op.ve,
             ordered |-> TRUE, filled |-> op.filled, installed |-> {}]

\* _execute_close_long / _execute_close_short
ExecuteCloseOn(tr, ve, d, o) ==
    LET side == SideOf(d.action)
        gp == GetPositions(tr, ve, o)
        pos_quantity == gp.ret[side]
        cl == Close(gp.tr, ve, side, pos_quantity, o)
        none == [raised |-> TRUE, error |-> "get_positions", tr |-> gp.tr, ve |-> ve,
                 ordered |-> FALSE, filled |-> 0, installed |-> {}]
    IN IF gp.raised THEN none
       ELSE IF pos_quantity = 0 THEN [none EXCEPT !.error = "ValueError"]
       ELSE [raised |-> cl.raised, error |-> IF cl.raised THEN "order" ELSE "",
             tr |-> cl.tr, ve |-> cl.ve, ordered |-> TRUE, filled |-> cl.filled,
             installed |-> {}]

\* the decisions that reach the loop: a list that fails validation is executed
\* as extracted, so stop_loss and take_profit may be 0
ExecutedDecisions ==
    [action : OpenActions \cup CloseActions, quantity : Quantities \ {0},
     leverage : Leverages, stop_loss : Prices, take_profit : Prices]

\* lines 366-391: action_record starts with success False; it becomes True only
\* when _execute_decision_with_record returns without raising
ExecuteDecisionWithRecord ==
    /\ CallsLeft
    /\ \E d \in ExecutedDecisions, o \in ExecuteOutcomes :
         \E r \in {IF d.action \in OpenActions
                   THEN ExecuteOpenOn(trader, venue, d, o)
                   ELSE ExecuteCloseOn(trader, venue, d, o)} :
            /\ args' = [fn |-> "execute", decision |-> d]
            /\ result' = [fn |-> "execute",
                          n |-> (IF result = NoCall THEN 0 ELSE result.n) + 1,
                          success |-> ~r.raised, error |-> r.error,
                          ordered |-> r.ordered, filled |-> r.filled,
                          installed |-> r.installed,
                          before |-> [long |-> venue.long, short |-> venue.short],
                          after |-> [long |-> r.ve.long, short |-> r.ve.short]]
            /\ trader' = r.tr
            /\ venue' = r.ve
    /\ venueOnlyUnchanged

InitExecute == InitVenue

\* no stop order is ever working here (the only adapter that can be constructed
\* installs none through this path), so no trigger fires between two decisions
NextExecute ==
    \/ ExecuteDecisionWithRecord
    \/ CacheExpires

SpecExecute == InitExecute /\ [][NextExecute]_vars

(***************************************************************************)
(* The run loop of one registered trader and who starts and stops it.      *)
(* A task is an asyncio task executing AutoTrader.run (directly, or inside *)
(* the REST hook's run_trader_with_error_handling).  st is its position:   *)
(*   "unborn"    not created yet                                           *)
(*   "created"   created by create_task, run() has not begun               *)
(*   "cycle"     suspended inside run_cycle                                *)
(*   "sleep"     suspended in asyncio.sleep(scan_interval_minutes * 60)    *)
(*   "done"      run() returned                                            *)
(*   "cancelled" ended by task.cancel()                                    *)
(***************************************************************************)
TaskIds == 1..MaxTasks
Live(t) == tasks[t].st \in {"created", "cycle", "sleep"}
Unborn == {t \in TaskIds : tasks[t].st = "unborn"}

lifeOnlyUnchanged ==
    UNCHANGED <<now, stop_until, cycle_number, logDir, pc, record_data, decisions,
                sorted_decisions, idx, calls, appended, venuePos, cached_positions,
                equity, cyclesRun, position_first_seen_time, args, result, cache_files,
                manager, coros, database, client, venue, trader>>

\* stop_all has returned and no start was requested since
StartedAgain == IF sa_pc = "returned" THEN "idle" ELSE sa_pc

\* TraderManager.start_all: a task per registered trader, stored in trader_tasks
StartAll ==
    /\ \E t \in Unborn :
         /\ t = CHOOSE u \in Unborn : \A v \in Unborn : u <= v
         /\ tasks' = [tasks EXCEPT ![t] = [st |-> "created", origin |-> "start_all"]]
         /\ trader_tasks' = t
    /\ sa_pc' = StartedAgain
    /\ UNCHANGED <<is_running, sa_tasks, call_count>>
    /\ lifeOnlyUnchanged

\* POST /api/traders/{id}/start: refused while is_running, else a background
\* task that the manager does not record
StartTrader ==
    /\ is_running = FALSE
    /\ \E t \in Unborn :
         /\ t = CHOOSE u \in Unborn : \A v \in Unborn : u <= v
         /\ tasks' = [tasks EXCEPT ![t] = [st |-> "created", origin |-> "rest"]]
    /\ sa_pc' = StartedAgain
    /\ UNCHANGED <<is_running, trader_tasks, sa_tasks, call_count>>
    /\ lifeOnlyUnchanged

\* POST /api/traders/{id}/stop (and DELETE): AutoTrader.stop() when is_running
StopTrader ==
    /\ is_running = TRUE
    /\ is_running' = FALSE
    /\ UNCHANGED <<tasks, trader_tasks, sa_pc, sa_tasks, call_count>>
    /\ lifeOnlyUnchanged

\* AutoTrader.run, lines 214-224: the flag is set and the first cycle begins
RunStart(t) ==
    /\ tasks[t].st = "created"
    /\ call_count < MaxCallCount
    /\ is_running' = TRUE
    /\ call_count' = call_count + 1
    /\ tasks' = [tasks EXCEPT ![t].st = "cycle"]
    /\ UNCHANGED <<trader_tasks, sa_pc, sa_tasks>>
    /\ lifeOnlyUnchanged

\* run_cycle returns (or raises into run's except) and the while condition of
\* line 229 is evaluated: sleep again, or leave the loop
CycleEnd(t) ==
    /\ tasks[t].st = "cycle"
    /\ tasks' = [tasks EXCEPT ![t].st = IF is_running THEN "sleep" ELSE "done"]
    /\ UNCHANGED <<is_running, trader_tasks, sa_pc, sa_tasks, call_count>>
    /\ lifeOnlyUnchanged

\* lines 231-232: the sleep timer expires and run_cycle is awaited
TimerExpires(t) ==
    /\ tasks[t].st = "sleep"
    /\ call_count < MaxCallCount
    /\ call_count' = call_count + 1
    /\ tasks' = [tasks EXCEPT ![t].st = "cycle"]
    /\ UNCHANGED <<is_running, trader_tasks, sa_pc, sa_tasks>>
    /\ lifeOnlyUnchanged

\* TraderManager.stop_all, lines 415-433: every trader is signalled and the
\* recorded tasks are collected; with no recorded task it returns at once
StopAllSignal ==
    /\ sa_pc \in {"idle", "returned"}
    /\ is_running' = FALSE
    /\ IF trader_tasks = 0
       THEN /\ sa_tasks' = {}
            /\ sa_pc' = "returned"
       ELSE /\ sa_tasks' = {trader_tasks}
            /\ sa_pc' = "waiting"
    /\ UNCHANGED <<tasks, trader_tasks, call_count>>
    /\ lifeOnlyUnchanged

\* lines 433-446: asyncio.wait returns because every collected task is done
StopAllWaitDone ==
    /\ sa_pc = "waiting"
    /\ \A t \in sa_tasks : ~Live(t)
    /\ trader_tasks' = 0
    /\ sa_tasks' = {}
    /\ sa_pc' = "returned"
    /\ UNCHANGED <<is_running, tasks, call_count>>
    /\ lifeOnlyUnchanged

\* lines 433-446: the 10 s deadline passes, the pending tasks are cancelled
\* and gathered (CancelledError is not an Exception: no handler of run or
\* run_cycle catches it)
StopAllTimeout ==
    /\ sa_pc = "waiting"
    /\ \E t \in sa_tasks : Live(t)
    /\ tasks' = [t \in TaskIds |->
                   IF t \in sa_tasks /\ Live(t) THEN [tasks[t] EXCEPT !.st = "cancelled"]
                   ELSE tasks[t]]
    /\ trader_tasks' = 0
    /\ sa_tasks' = {}
    /\ sa_pc' = "returned"
    /\ UNCHANGED <<is_running, call_count>>
    /\ lifeOnlyUnchanged

InitLife ==
    /\ now = 1
    /\ stop_until = 1
    /\ call_count = 0
    /\ cycle_number = 0
    /\ logDir = <<>>
    /\ pc = "idle"
    /\ record_data = NewRecordData
    /\ decisions = <<>>
    /\ sorted_decisions = <<>>
    /\ idx = 1
    /\ calls = <<>>
    /\ appended = <<>>
    /\ venuePos = {}
    /\ cached_positions = {}
    /\ equity \in EquityValues
    /\ cyclesRun = 0
    /\ position_first_seen_time = NoneSeen
    /\ LifeIdle

NextLife ==
    \/ StartAll
    \/ StartTrader
    \/ StopTrader
    \/ \E t \in TaskIds : RunStart(t)
    \/ \E t \in TaskIds : CycleEnd(t)
    \/ \E t \in TaskIds : TimerExpires(t)
    \/ StopAllSignal
    \/ StopAllWaitDone
    \/ StopAllTimeout

SpecLife == InitLife /\ [][NextLife]_vars

\* The event loop runs every task that is ready: a created task begins run(),
\* and the awaits of run_cycle complete (each request answers or times out).
\* Nothing obliges the sleep timer to expire or stop_all to be called.
SpecLifeFair ==
    /\ InitLife
    /\ [][NextLife]_vars
    /\ \A t \in TaskIds : WF_vars(RunStart(t)) /\ WF_vars(CycleEnd(t))

(***************************************************************************)
(* The two counters of a cycle, with the tasks of one trader interleaving  *)
(* at run_cycle's awaits: call_count is advanced when run_cycle is entered *)
(* (RunStart, TimerExpires), read when the context is built, and           *)
(* cycle_number is advanced by log_decision just before run_cycle returns. *)
(* Here `calls` keeps, per task, the call_count the prompt of its latest   *)
(* build shows, and `appended` the records handed to log_decision.         *)
(***************************************************************************)
countersOnlyUnchanged ==
    UNCHANGED <<now, stop_until, logDir, pc, record_data, decisions, sorted_decisions,
                idx, venuePos, cached_positions, equity, cyclesRun,
                position_first_seen_time, args, result, cache_files, manager, coros,
                database, client, venue, trader, trader_tasks, sa_pc, sa_tasks, is_running>>

\* build_trading_context, line 516: Context.call_count is what the prompt shows
CyclePrompt(t) ==
    /\ tasks[t].st = "cycle"
    /\ tasks' = [tasks EXCEPT ![t].st = "prompted"]
    /\ LET Others(c) == c.i # t
       IN calls' = Append(SelectSeq(calls, Others),
                          Call("build_trading_context", "", t, call_count))
    /\ UNCHANGED <<call_count, cycle_number, appended>>
    /\ countersOnlyUnchanged

\* the call_count the prompt of task t's cycle showed
PromptOf(t) == calls[CHOOSE k \in 1..Len(calls) : calls[k].i = t].ret

\* lines 267 and 400 with log_decision, lines 78-87: the cooldown skip, a
\* cycle-level failure and the normal end all hand one record to
\* log_decision, which advances cycle_number; then run_cycle returns and
\* run's loop tests is_running
CycleLog(t) ==
    /\ tasks[t].st \in {"cycle", "prompted"}
    /\ cycle_number' = cycle_number + 1
    /\ appended' = Append(appended,
                          [cycle_number |-> cycle_number + 1, call_count |-> call_count,
                           prompted |-> tasks[t].st = "prompted",
                           prompt |-> IF tasks[t].st = "prompted" THEN PromptOf(t) ELSE 0])
    /\ tasks' = [tasks EXCEPT ![t].st = IF is_running THEN "sleep" ELSE "done"]
    /\ UNCHANGED <<call_count, calls>>
    /\ countersOnlyUnchanged

InitCounters == InitLife

NextCounters ==
    \/ StartAll
    \/ StartTrader
    \/ StopTrader
    \/ \E t \in TaskIds : RunStart(t)
    \/ \E t \in TaskIds : TimerExpires(t)
    \/ \E t \in TaskIds : CyclePrompt(t)
    \/ \E t \in TaskIds : CycleLog(t)

SpecCounters == InitCounters /\ [][NextCounters]_vars

(***************************************************************************)
(* Properties of the cycle (checked under SpecCycle)                       *)
(***************************************************************************)
OrderOps == OpenActions \cup CloseActions
VenueOrderOps == OrderOps \cup {"set_stop_loss_take_profit"}

\* C1: within a cycle every close_long/close_short call made at the Venue
\* precedes every open_long/open_short call, whatever order the engine
\* returned the decisions in and whether or not earlier actions failed.
C1_ClosesBeforeOpens ==
    \A k \in 1..Len(calls) :
        calls[k].op \in CloseActions =>
            \A j \in 1..(k - 1) : calls[j].op \notin OpenActions

\* the engine listed an open before a close, and both reached the Venue
C1_Witness ==
    /\ \E j \in 1..Len(decisions) : \E k \in 1..Len(decisions) :
         j < k /\ decisions[j].action \in OpenActions /\ decisions[k].action \in CloseActions
    /\ \E j \in 1..Len(calls) : calls[j].op \in CloseActions
    /\ \E k \in 1..Len(calls) : calls[k].op \in OpenActions

\* C2: every order sent to the Venue belongs to a decision that passed the
\* engine's validation and that no failing decision precedes in the LLM's list.
C2_OnlyValidatedDecisionsReachVenue ==
    \A k \in 1..Len(calls) :
        calls[k].op \in OrderOps =>
            \E p \in 1..Len(decisions) :
                /\ decisions[p] = sorted_decisions[calls[k].i]
                /\ \A q \in 1..p : ValidateDecision(decisions[q], equity, BtcEthLeverage,
                                                    AltcoinLeverage)

\* C7: a cycle that fires while now < stop_until makes no external call, hands
\* exactly one record to the DecisionLogger (one append: its file is written
\* unless the write itself fails or is cut short), that record has success = false and a
\* non-empty cooldown message, and stop_until and the venue are left unchanged.
C7_CooldownSkip ==
    [][ (pc = "idle" /\ call_count' = call_count + 1 /\ InCooldown(now, stop_until)) =>
          /\ calls' = <<>>
          /\ Len(appended') = 1
          /\ appended'[1].success = FALSE
          /\ appended'[1].error_message = "cooldown"
          /\ cycle_number' = cycle_number + 1
          /\ logDir' \in {WriteFile(logDir, cycle_number + 1, appended'[1], o) :
                              o \in WriteOutcomes}
          /\ stop_until' = stop_until
          /\ venuePos' = venuePos
          /\ pc' = "returned" ]_vars

\* a cooldown skip has been recorded in the log directory
C7_Witness ==
    /\ pc = "returned"
    /\ now < stop_until
    /\ calls = <<>>
    /\ Len(appended) = 1
    /\ Len(logDir) >= 1
    /\ appended[1].error_message = "cooldown"
    /\ logDir[Len(logDir)].complete
    /\ logDir[Len(logDir)].success = FALSE

\* C8: when context assembly or the engine's decide call raises, run_cycle
\* does not raise: the record gets success = false and the error text, no
\* order call is made in the cycle, the record is handed to the logger and
\* run_cycle returns, so that the loop goes on.
ContextFailures == {"get_balance", "get_positions", "pool"}
DecideFailures == {"llm_error", "llm_empty"}

C8_CycleFailureRecorded ==
    [][ /\ (pc = "context" /\ pc' # "context" /\ pc' # "decide") =>
             /\ pc' = "log"
             /\ record_data'.success = FALSE
             /\ record_data'.error_message \in ContextFailures
             /\ \A k \in 1..Len(calls') : calls'[k].op \notin VenueOrderOps
        /\ (pc = "decide" /\ pc' # "decide" /\ pc' # "exec") =>
             /\ pc' = "log"
             /\ record_data'.success = FALSE
             /\ record_data'.error_message \in DecideFailures
             /\ \A k \in 1..Len(calls') : calls'[k].op \notin VenueOrderOps
        /\ (pc = "log" /\ pc' # "log") =>
             /\ pc' = "returned"
             /\ appended' = <<record_data>>
             /\ calls' = calls
             /\ cycle_number' = cycle_number + 1
             /\ logDir' \in {WriteFile(logDir, cycle_number + 1, record_data, o) :
                                 o \in WriteOutcomes} ]_vars

\* a cycle whose LLM call returned empty content has been recorded and returned
C8_Witness ==
    /\ pc = "returned"
    /\ appended # <<>>
    /\ appended[1].success = FALSE
    /\ appended[1].error_message = "llm_empty"
    /\ Len(logDir) >= 1
    /\ logDir[Len(logDir)].complete
    /\ logDir[Len(logDir)].success = FALSE
    /\ \A k \in 1..Len(calls) : calls[k].op \notin VenueOrderOps

\* C9: every decision of the sorted list gets exactly one per-action record,
\* in execution order; a decision whose execution raised has success = false
\* and the error text, the later decisions are still executed, and the
\* cycle's record is still handed to the logger.
C9_ActionRecordMatches(k) ==
    LET d == sorted_decisions[k]
        r == record_data.decisions[k]
    IN /\ r.action = d.action
       /\ r.symbol = d.symbol
       /\ r.success = (r.error = "")
       /\ d.action \notin ValidActions => ~r.success
       /\ (r.success /\ d.action \in OrderOps) =>
              \E c \in 1..Len(calls) : calls[c].i = k /\ calls[c].op = d.action
       /\ (~r.success /\ d.action \in CloseActions) =>
              \/ \E c \in 1..Len(calls) : calls[c].i = k /\ calls[c].op = "get_positions"
                                          /\ <<d.symbol, SideOf(d.action)>> \notin calls[c].ret
              \/ \E c \in 1..Len(calls) : calls[c].i = k /\ calls[c].op = d.action

C9_OneRecordPerDecision ==
    /\ pc = "exec" =>
         /\ idx <= Len(sorted_decisions) + 1
         /\ Len(record_data.decisions) = idx - 1
         /\ \A k \in 1..Len(record_data.decisions) : C9_ActionRecordMatches(k)
    /\ (pc = "returned" /\ appended # <<>> /\ appended[1].success) =>
         /\ appended = <<record_data>>
         /\ Len(record_data.decisions) = Len(sorted_decisions)
         /\ \A k \in 1..Len(record_data.decisions) : C9_ActionRecordMatches(k)

\* the first decision raised, the second was executed with success, and the
\* cycle's record was written
C9_Witness ==
    /\ pc = "returned"
    /\ appended # <<>>
    /\ Len(appended[1].decisions) = 2
    /\ ~appended[1].decisions[1].success
    /\ appended[1].decisions[1].error # ""
    /\ appended[1].decisions[2].success
    /\ appended[1].decisions[2].action \in OrderOps
    /\ Len(logDir) >= 1

\* C10: an open_long (open_short) whose get_positions answer holds a long
\* (short) position of the same symbol makes no open, market-data or
\* stop-loss/take-profit call, and its record has success = false with the
\* conflict error.
SameSideConflictAt(c) ==
    /\ calls[c].op = "get_positions"
    /\ calls[c].i >= 1
    /\ sorted_decisions[calls[c].i].action \in OpenActions
    /\ <<sorted_decisions[calls[c].i].symbol, SideOf(sorted_decisions[calls[c].i].action)>>
           \in calls[c].ret

C10_SameSideOpenRefused ==
    \A c \in 1..Len(calls) :
        SameSideConflictAt(c) =>
            /\ \A k \in 1..Len(calls) :
                 calls[k].i = calls[c].i =>
                     calls[k].op \notin OpenActions \cup {"market", "set_stop_loss_take_profit"}
            /\ Len(record_data.decisions) >= calls[c].i
            /\ record_data.decisions[calls[c].i].success = FALSE
            /\ record_data.decisions[calls[c].i].error = "conflict"

\* an open_long met a long position of its symbol and was refused
C10_Witness ==
    \E c \in 1..Len(calls) :
        /\ SameSideConflictAt(c)
        /\ sorted_decisions[calls[c].i].action = "open_long"
        /\ record_data.decisions[calls[c].i].error = "conflict"

\* C12: the execution order of a cycle is the stable partition [closes, opens,
\* others] of the engine's list: a permutation of it (nothing dropped or
\* duplicated) in which closes precede opens precede the others and, within
\* each group, the decisions keep the engine's relative order.
C12_Group(d) ==
    IF d.action \in CloseActions THEN 1 ELSE IF d.action \in OpenActions THEN 2 ELSE 3

\* the decisions of group g, in the order the list has them
C12_Restrict(ds, g) ==
    LET InGroup(d) == C12_Group(d) = g
    IN SelectSeq(ds, InGroup)

C12_StablePartition ==
    /\ Len(sorted_decisions) = Len(decisions)
    /\ \A i \in 1..(Len(sorted_decisions) - 1) :
         C12_Group(sorted_decisions[i]) <= C12_Group(sorted_decisions[i + 1])
    /\ \A g \in 1..3 : C12_Restrict(sorted_decisions, g) = C12_Restrict(decisions, g)

\* the engine listed two different decisions out of priority order and the
\* cycle reordered them
C12_Witness ==
    /\ pc = "exec"
    /\ Len(decisions) = 2
    /\ C12_Group(decisions[1]) > C12_Group(decisions[2])
    /\ sorted_decisions = <<decisions[2], decisions[1]>>

\* C15: when the LLM answer holds no balanced [...] block (no '[' at all, or
\* a first '[' that no ']' closes), the engine returns an empty decision list
\* with the reasoning preserved, the cycle makes no order call, and its record
\* is handed to the logger with the reasoning in cot_trace and an empty
\* decisions list.
C15_Count(t, p, q, c) == Cardinality({i \in p..q : t[i] = c})

C15_NoBalancedBlock(t) ==
    \/ \A i \in 1..Len(t) : t[i] # "["
    \/ \E p \in 1..Len(t) :
         /\ t[p] = "["
         /\ \A i \in 1..(p - 1) : t[i] # "["
         /\ ~\E q \in p..Len(t) : C15_Count(t, p, q, "[") = C15_Count(t, p, q, "]")

\* the text before the first '[' (the whole text when there is none)
C15_Reasoning(t) ==
    IF \E i \in 1..Len(t) : t[i] = "["
    THEN SubSeq(t, 1, (CHOOSE p \in 1..Len(t) :
                          t[p] = "[" /\ \A i \in 1..(p - 1) : t[i] # "[") - 1)
    ELSE t

\* cot begins with r less the spaces around it
C15_Preserved(r, cot) ==
    \E a \in 0..Len(r) : \E b \in 0..(Len(r) - a) :
        /\ \A i \in 1..a : r[i] = " "
        /\ \A i \in (Len(r) - b + 1)..Len(r) : r[i] = " "
        /\ a < Len(r) => r[a + 1] # " "
        /\ a + b < Len(r) => r[Len(r) - b] # " "
        /\ Len(cot) >= Len(r) - a - b
        /\ SubSeq(cot, 1, Len(r) - a - b) = SubSeq(r, a + 1, Len(r) - b)

C15_NoBlockGivesEmptyList ==
    \A c \in 1..Len(calls) :
        (/\ calls[c].op = "llm"
         /\ calls[c].ret # NoAnswer
         /\ C15_NoBalancedBlock(calls[c].ret)) =>
            /\ pc \in {"exec", "returned"}
            /\ decisions = <<>>
            /\ sorted_decisions = <<>>
            /\ record_data.success
            /\ record_data.decisions = <<>>
            /\ record_data.cot_trace # NoCotTrace
            /\ C15_Preserved(C15_Reasoning(calls[c].ret), record_data.cot_trace)
            /\ \A k \in 1..Len(calls) : calls[k].op \notin VenueOrderOps
            /\ pc = "returned" => appended = <<record_data>>

\* an answer of reasoning followed by an unclosed '[' was recorded
C15_Witness ==
    /\ pc = "returned"
    /\ \E c \in 1..Len(calls) :
         /\ calls[c].op = "llm"
         /\ calls[c].ret = <<"r", "[", "r">>
    /\ appended = <<record_data>>
    /\ record_data.cot_trace = <<"r">>
    /\ record_data.decisions = <<>>
    /\ Len(logDir) >= 1

\* C11: executing a decision never sends open_long/open_short for a (symbol,
\* side) the Venue holds at that moment, and never refuses an open with the
\* same-side conflict for a (symbol, side) that a successful close of the same
\* cycle has removed from the Venue, whatever get_positions is answered from.
C11_OwnCloseRemoved(key) ==
    \E k \in 1..(idx - 1) :
        /\ sorted_decisions[k].action \in CloseActions
        /\ <<sorted_decisions[k].symbol, SideOf(sorted_decisions[k].action)>> = key
        /\ record_data.decisions[k].success

C11_OpensAgreeWithVenue ==
    [][ (pc = "exec" /\ idx <= Len(sorted_decisions) /\ idx' = idx + 1
         /\ sorted_decisions[idx].action \in OpenActions) =>
          LET d == sorted_decisions[idx]
              key == <<d.symbol, SideOf(d.action)>>
          IN /\ (\E c \in 1..Len(calls') : calls'[c].i = idx /\ calls'[c].op = d.action)
                   => key \notin venuePos
             /\ (record_data'.decisions[idx].error = "conflict"
                 /\ C11_OwnCloseRemoved(key)) => key \in venuePos ]_vars

(***************************************************************************)
(* Properties of the validator (checked under SpecValidate)                *)
(***************************************************************************)
\* C13: the validator accepts a decision exactly when the reference predicate
\* holds: allowed action and, for opens, 1 <= leverage <= max_leverage,
\* 0 < position_size_usd <= max_position_value x 1.01, stop_loss > 0,
\* take_profit > 0 and the two ordered for the side, with max_leverage /
\* max_position_value = btc_eth_leverage / 10 x equity for BTCUSDT and ETHUSDT
\* and altcoin_leverage / 1.5 x equity otherwise.
C13_Reference(d, e, b, a) ==
    /\ d.action \in {"open_long", "open_short", "close_long", "close_short", "hold", "wait"}
    /\ d.action \in {"open_long", "open_short"} =>
         LET major == d.symbol \in {"BTCUSDT", "ETHUSDT"}
         IN /\ 1 <= d.leverage
            /\ d.leverage <= (IF major THEN b ELSE a)
            /\ 0 < d.position_size_usd
            /\ IF major THEN d.position_size_usd * 100 <= 10 * e * 101
                         ELSE d.position_size_usd * 200 <= 3 * e * 101
            /\ d.stop_loss > 0
            /\ d.take_profit > 0
            /\ d.action = "open_long" => d.stop_loss < d.take_profit
            /\ d.action = "open_short" => d.stop_loss > d.take_profit

C14_RiskRewardBelowThreeRejected ==
    (/\ result.fn = "validate"
     /\ args.account_equity = 1000
     /\ args.btc_eth_leverage = 5
     /\ args.d.symbol = "BTCUSDT"
     /\ args.d.action = "open_long"
     /\ args.d.leverage = 5
     /\ args.d.position_size_usd = 5000
     /\ args.d.stop_loss = 100) =>
        /\ args.d.take_profit = 115 => result.ok
        /\ args.d.take_profit = 110 => ~result.ok

(***************************************************************************)
(* Properties of context assembly (checked under SpecMarketData)           *)
(***************************************************************************)
\* C16: after context assembly the market-data map holds no symbol that is a
\* candidate, not a current position, and whose open interest x price is
\* below 15,000,000; every current position whose snapshot fetch succeeded
\* is in the map whatever its open interest, also when it is a candidate too.
C16_IsCandidate(symbol) ==
    \E i \in 1..Len(args.candidate_coins) : args.candidate_coins[i] = symbol

C16_LiquidityFilter ==
    result.fn = "market_data" =>
        /\ \A symbol \in result.market_data_map :
             ~(/\ C16_IsCandidate(symbol)
               /\ symbol \notin args.positions
               /\ args.market[symbol].open_interest * args.market[symbol].current_price < 15)
        /\ \A symbol \in args.positions :
             args.market[symbol].ok => symbol \in result.market_data_map

\* an illiquid position that is also a candidate was kept while an illiquid
\* candidate was dropped
C16_Witness ==
    /\ result.fn = "market_data"
    /\ args.positions = {"ALTUSDT"}
    /\ args.candidate_coins = <<"ALTUSDT", "BTCUSDT">>
    /\ args.market["ALTUSDT"].ok
    /\ args.market["ALTUSDT"].open_interest * args.market["ALTUSDT"].current_price = 14
    /\ args.market["BTCUSDT"].ok
    /\ args.market["BTCUSDT"].open_interest * args.market["BTCUSDT"].current_price = 14
    /\ result.market_data_map = {"ALTUSDT"}

(***************************************************************************)
(* Properties of the candidate feeds (checked under SpecPool)              *)
(***************************************************************************)
\* C17: when the upstream fetch of a feed fails, a cache file that exists and
\* is readable is returned whatever its age (and not the defaults); with the
\* cache missing or unreadable the scored feed returns exactly the 8 default
\* symbols and the OI-growth feed the empty list; the failure never
\* propagates to the caller.
C17_Defaults ==
    {"BTC", "ETH", "SOL", "BNB", "XRP", "DOGE", "ADA", "HYPE"}

C17_FeedFallback ==
    /\ (/\ result.fn = "get_coin_pool"
        /\ ~args.use_default_coins
        /\ args.coin_pool_api_url
        /\ ~result.upstream_ok) =>
            /\ ~result.raised
            /\ IF result.before.st = "ok"
               THEN result.value = result.before.content
               ELSE /\ Len(result.value) = 8
                    /\ {result.value[i].pair.base : i \in 1..8} = C17_Defaults
                    /\ \A i \in 1..8 : result.value[i].pair = NormalizeSymbol(result.value[i].pair)
    /\ (/\ result.fn = "get_oi_top_positions"
        /\ args.oi_top_api_url
        /\ ~result.upstream_ok) =>
            /\ ~result.raised
            /\ IF result.before.st = "ok"
               THEN result.value = result.before.content
               ELSE result.value = <<>>

\* the scored feed's upstream failed and a cache older than 24 h was returned
C17_Witness ==
    /\ result.fn = "get_coin_pool"
    /\ ~args.use_default_coins
    /\ args.coin_pool_api_url
    /\ ~result.upstream_ok
    /\ result.before.st = "ok"
    /\ result.before.old
    /\ result.before.content # <<>>
    /\ result.value = result.before.content

(***************************************************************************)
(* Properties of the merged pool (checked under SpecMerge)                 *)
(***************************************************************************)
\* C18: get_merged_coin_pool(ai_limit) returns each symbol at most once; its
\* symbol set is the union of the top ai_limit scored symbols by score
\* descending and all OI-growth symbols, normalized; and the origin tags of
\* every returned symbol form a set: 'ai500' exactly when the scored selection
\* holds the symbol, 'oi_top' exactly when the OI-growth feed does, no tag
\* twice even when a feed lists a normalized symbol more than once.
C18_Normal(p) == [base |-> p.base, suffix |-> TRUE, upper |-> TRUE, padded |-> FALSE]

C18_OiSymbols ==
    {C18_Normal(args.oi_top_positions[i].symbol) : i \in 1..Len(args.oi_top_positions)}

\* I is a choice of the top ai_limit entries of the scored feed
C18_IsTopSelection(I) ==
    /\ Cardinality(I) = (IF args.ai500_limit < Len(args.coin_pool)
                         THEN args.ai500_limit ELSE Len(args.coin_pool))
    /\ \A i \in I : \A j \in (1..Len(args.coin_pool)) \ I :
         args.coin_pool[i].score >= args.coin_pool[j].score

C18_MergedPoolTagsFormSets ==
    result.fn = "merge" =>
        LET m == result.merged
        IN /\ \A i \in 1..Len(m.all_symbols) : \A j \in 1..Len(m.all_symbols) :
                i # j => m.all_symbols[i] # m.all_symbols[j]
           /\ \E I \in SUBSET (1..Len(args.coin_pool)) :
                /\ C18_IsTopSelection(I)
                /\ LET scored == {C18_Normal(args.coin_pool[i].pair) : i \in I}
                   IN /\ {m.all_symbols[i] : i \in 1..Len(m.all_symbols)}
                           = scored \cup C18_OiSymbols
                      /\ DOMAIN m.symbol_sources = scored \cup C18_OiSymbols
                      /\ \A sym \in DOMAIN m.symbol_sources :
                           LET tags == m.symbol_sources[sym]
                           IN /\ \A a \in 1..Len(tags) : \A b \in 1..Len(tags) :
                                   a # b => tags[a] # tags[b]
                              /\ (\E a \in 1..Len(tags) : tags[a] = "ai500") <=> sym \in scored
                              /\ (\E a \in 1..Len(tags) : tags[a] = "oi_top")
                                   <=> sym \in C18_OiSymbols

(***************************************************************************)
(* Properties of the first-seen map (checked under SpecContext)            *)
(***************************************************************************)
\* the position snapshot get_positions returned to the latest build
C19_Snapshot == calls[Len(calls) - 1].ret

\* C19: after every completed context build the key set of the first-seen
\* map equals the set of (symbol, side) pairs of the position snapshot that
\* build used: every pair of the snapshot has an entry whose time is not
\* later than now, and no pair outside the snapshot has an entry.
C19_FirstSeenMatchesSnapshot ==
    pc = "decide" =>
        /\ DOMAIN position_first_seen_time = C19_Snapshot
        /\ \A k \in DOMAIN position_first_seen_time :
             position_first_seen_time[k] <= EpochMs

\* a second build that kept an entry of the first, dropped another one and
\* inserted a new pair
C19_Witness ==
    /\ pc = "decide"
    /\ Len(calls) = 6
    /\ calls[2].ret \ C19_Snapshot # {}
    /\ \E k \in C19_Snapshot : position_first_seen_time[k] < EpochMs
    /\ \E k \in C19_Snapshot : position_first_seen_time[k] = EpochMs

\* the places in `calls` of the snapshots taken by the builds so far: a
\* get_positions that returned is followed by the call of the candidate pool
C36_SnapshotIndexes(cs) ==
    {i \in 1..(Len(cs) - 1) : cs[i].op = "get_positions" /\ cs[i + 1].op = "pool"}

C36_Last(I) == CHOOSE i \in I : \A j \in I : j <= i

\* C36: when a build takes a snapshot, a pair that was also in the snapshot
\* of the previous build keeps its first-seen time, and a pair that the
\* previous snapshot lacked (or that no build saw before) gets the time of
\* this build, which is not earlier than any build before it.
C36_FirstSeenFollowsStreak ==
    [][Len(calls') = Len(calls) + 3 =>
         LET before == C36_SnapshotIndexes(calls)
             seen == IF before = {} THEN {} ELSE calls[C36_Last(before)].ret
             snapshot == calls'[Len(calls') - 1].ret
         IN \A k \in snapshot :
               /\ k \in DOMAIN position_first_seen_time'
               /\ IF k \in seen
                  THEN /\ k \in DOMAIN position_first_seen_time
                       /\ position_first_seen_time'[k] = position_first_seen_time[k]
                  ELSE /\ position_first_seen_time'[k] = EpochMs'
                       /\ EpochMs' >= EpochMs
                       /\ \A j \in DOMAIN position_first_seen_time :
                             position_first_seen_time[j] <= EpochMs']_vars

\* three builds: one pair is in all three snapshots and keeps the time of the
\* first build, another is seen, lost and seen again and has the time of the third
C36_Witness ==
    /\ pc = "decide"
    /\ C36_SnapshotIndexes(calls) = {2, 5, 8}
    /\ \E k \in calls[2].ret \cap calls[5].ret \cap calls[8].ret :
          position_first_seen_time[k] = 1
    /\ \E k \in (calls[2].ret \cap calls[8].ret) \ calls[5].ret :
          position_first_seen_time[k] = 3

(***************************************************************************)
(* Properties of the performance analysis (checked under SpecAnalyze)      *)
(***************************************************************************)
\* the files of the window and of the preroll, by their place in the log
C21_WindowStart == Len(args.files) - args.lookback_cycles + 1

C21_PrerollStart == Len(args.files) - 3 * args.lookback_cycles + 1

\* action a of file i is a successful action of the pair long BTCUSDT
C21_OfPair(i, a, acts) ==
    /\ args.files[i].complete
    /\ a \in 1..Len(args.files[i].decisions)
    /\ args.files[i].decisions[a].success
    /\ args.files[i].decisions[a].action \in acts

\* no successful open or close of the pair lies strictly between action a of
\* file i and action b of file j
C21_NothingBetween(i, a, j, b) ==
    \A m \in i..j : \A c \in 1..2 :
        (C21_OfPair(m, c, {"open_long", "close_long"})
           /\ (m > i \/ c > a) /\ (m < j \/ c < b)) => FALSE

\* C21: a successful open of a pair in the preroll (older than the window,
\* among the 3 x window newest records) that is still open when the window
\* begins, and whose close lies inside the window, makes that close a trade
\* with the open price, quantity and leverage of that open.
C21_PrerollOpenMatched ==
    result.fn = "analyze" =>
        \A i \in 1..Len(args.files) : \A j \in 1..Len(args.files) :
        \A a \in 1..2 : \A b \in 1..2 :
            (/\ C21_PrerollStart <= i /\ i < C21_WindowStart /\ C21_WindowStart <= j
             /\ C21_OfPair(i, a, {"open_long"})
             /\ C21_OfPair(j, b, {"close_long"})
             /\ C21_NothingBetween(i, a, j, b)) =>
                \E t \in 1..Len(result.trades) :
                    /\ result.trades[t].symbol = "BTCUSDT"
                    /\ result.trades[t].side = "long"
                    /\ result.trades[t].close_time = j
                    /\ result.trades[t].open_price = args.files[i].decisions[a].price
                    /\ result.trades[t].quantity = args.files[i].decisions[a].quantity
                    /\ result.trades[t].leverage = args.files[i].decisions[a].leverage

\* C22: as the log grows (each log a prefix of the next), total_trades
\* reported by analyze_performance for the same window never decreases.
C22_TotalTradesNeverDecrease ==
    [][ (args.fn = "analyze" /\ args'.fn = "analyze"
           /\ args'.lookback_cycles = args.lookback_cycles)
          => result'.total_trades >= result.total_trades ]_vars

\* file i holds a successful action of the given kinds on the trade's side
C37_Logged(i, trade, kinds) ==
    /\ i \in 1..Len(args.files)
    /\ args.files[i].complete
    /\ \E a \in 1..Len(args.files[i].decisions) :
          LET d == args.files[i].decisions[a]
          IN /\ d.success
             /\ d.action \in kinds
             /\ d.symbol = trade.symbol
             /\ ActionSide(d.action) = trade.side
             /\ d.action \in {"open_long", "open_short"} => d.price = trade.open_price

\* C37: every trade counted by analyze_performance pairs a successful close
\* with a successful open of the same (symbol, side) logged by an earlier
\* cycle than the close (within one cycle's record the closes come first),
\* and no open is paired with two closes.
C37_TradesPairEarlierOpens ==
    result.fn = "analyze" =>
        /\ \A t \in 1..Len(result.trades) :
              /\ C37_Logged(result.trades[t].close_time, result.trades[t],
                            {"close_long", "close_short"})
              /\ C37_Logged(result.trades[t].open_time, result.trades[t],
                            {"open_long", "open_short"})
              /\ result.trades[t].open_time < result.trades[t].close_time
        /\ \A t \in 1..Len(result.trades) : \A u \in 1..Len(result.trades) :
              (/\ t # u
               /\ result.trades[t].symbol = result.trades[u].symbol
               /\ result.trades[t].side = result.trades[u].side)
                  => result.trades[t].open_time # result.trades[u].open_time

(***************************************************************************)
(* Properties of the Sharpe value (checked under SpecSharpe)               *)
(***************************************************************************)
\* the positive balances, in order
C23_Equities == SelectSeq(args.balances, IsPositive)

\* the population standard deviation of the returns is 0: any two returns
\* (e[i+1] - e[i]) / e[i] are equal
C23_NoDeviation ==
    LET e == C23_Equities
    IN \A i \in 1..(Len(e) - 1) : \A j \in 1..(Len(e) - 1) :
         (e[i + 1] - e[i]) * e[j] = (e[j + 1] - e[j]) * e[i]

\* C23: the Sharpe value is 0 with fewer than 2 positive equities, +999 when
\* the standard deviation of the returns is 0 and their mean is positive,
\* -999 when it is 0 and their mean is negative; in particular two equities
\* e1 < e2 give +999.
C23_SharpeDegenerateCases ==
    result.fn = "sharpe" =>
        LET e == C23_Equities
        IN /\ Len(e) < 2 => result.sharpe_ratio = "0"
           /\ (Len(e) >= 2 /\ C23_NoDeviation /\ e[2] > e[1]) => result.sharpe_ratio = "+999"
           /\ (Len(e) >= 2 /\ C23_NoDeviation /\ e[2] < e[1]) => result.sharpe_ratio = "-999"

(***************************************************************************)
(* Properties of AutoTrader.initialize (checked under SpecInitialize)      *)
(***************************************************************************)
\* the models the AutoTraderConfig documents for ai_model
C27_KnownModels == {"qwen", "deepseek", "custom"}

\* C27: initialize() fails with an error when initial_balance <= 0, when the
\* exchange is not a supported venue, or when ai_model is not a known model.
C27_InitializeRejectsBadConfig ==
    result.fn = "initialize" =>
        ((\/ args.config.initial_balance <= 0
          \/ args.config.exchange \notin SupportedExchanges
          \/ args.config.ai_model \notin C27_KnownModels)
            => result.initialized.outcome # "ok")

(***************************************************************************)
(* Properties of the TraderManager (checked under SpecManager)             *)
(***************************************************************************)
\* the rows of the traders table with an existing enabled model row, an
\* existing enabled exchange row and a config that initialize() accepts
C25_Qualifying ==
    {k \in 1..Len(database) :
        /\ database[k].ai_model_id \in DOMAIN AiModels
        /\ AiModels[database[k].ai_model_id].enabled
        /\ database[k].exchange_id \in DOMAIN Exchanges
        /\ Exchanges[database[k].exchange_id].enabled
        /\ Initialize(ConfigOf(database[k])).outcome = "ok"}

\* C25: when load_user_traders returns, the registered trader ids are exactly
\* the rows with an existing enabled model, an existing enabled exchange and
\* a successful initialize(): each of them is registered and no other row is.
C25_LoadRegistersQualifyingRows ==
    [][\A c \in CoroIds :
         (coros[c].op = "load_user_traders" /\ coros'[c].op = "none")
             => DOMAIN manager'.traders = C25_Qualifying]_vars

\* the positions at which a coroutine only reads or writes self.traders or
\* self.trader_tasks
C26_MapPositions ==
    {"check_locked", "add_locked", "copy_locked", "store_locked", "count_locked",
     "tasks_locked", "clear_locked", "get_locked"}

C28_OrderSent == \E k \in 1..Len(result.trace) : result.trace[k] = "market_order"

\* C28: open_long/open_short sends the market order only after
\* cancel_all_orders and then set_leverage, in that order; if set_leverage
\* fails no order is sent; and when the order is sent no stop-loss or
\* take-profit order of the symbol is still working at the venue.
C28_OpenCancelsThenSetsLeverage ==
    result.fn = "open" =>
        /\ C28_OrderSent =>
              \E i \in 1..Len(result.trace) : \E j \in 1..Len(result.trace) :
                \E k \in 1..Len(result.trace) :
                  /\ i < j /\ j < k
                  /\ result.trace[i] = "cancel_all_orders"
                  /\ result.trace[j] = "set_leverage"
                  /\ result.trace[k] = "market_order"
        /\ result.leverage_raised => ~C28_OrderSent
        /\ C28_OrderSent => ~result.working_at_order

\* C29: close_long/close_short with quantity 0 closes the full size of the
\* position the venue holds on that side, and fails without sending an order
\* when there is none; after the fill cancel_all_orders is issued, and the
\* close succeeds whether or not that cancel does.
C29_CloseAllOfPosition ==
    (result.fn = "close" /\ args.quantity = 0) =>
        /\ (result.held > 0 /\ ~result.raised) => result.filled = result.held
        /\ result.held = 0 =>
              (result.raised /\ \A k \in 1..Len(result.trace) : result.trace[k] # "market_order")
        /\ result.filled > 0 =>
              /\ ~result.raised
              /\ \E j \in 1..Len(result.trace) : \E k \in 1..Len(result.trace) :
                    j < k /\ result.trace[j] = "market_order"
                          /\ result.trace[k] = "cancel_all_orders"

\* C30: when set_leverage(symbol, n) succeeded and the adapter's next call is
\* set_leverage(symbol, n) again, that second call sends no leverage-change
\* request and waits for no cool-down, with or without a position.
C30_SecondSetLeverageSendsNothing ==
    [][(/\ result # NoCall
        /\ result.fn = "set_leverage"
        /\ ~result.raised
        /\ result'.fn = "set_leverage"
        /\ result'.n = result.n + 1
        /\ args'.leverage = args.leverage)
          => \A k \in 1..Len(result'.trace) :
                 result'.trace[k] \notin {"change_leverage", "sleep"}]_vars

(***************************************************************************)
(* Properties of one executed decision (checked under SpecExecute)         *)
(***************************************************************************)
C31_OpenWithTargets ==
    /\ result.fn = "execute"
    /\ args.decision.action \in OpenActions
    /\ args.decision.stop_loss > 0
    /\ args.decision.take_profit > 0

\* C31: an open decision with stop_loss > 0 and take_profit > 0 whose
\* per-action record has success = true had its market order sent and, after
\* it, a stop-loss and a take-profit order installed at the venue.
C31_SuccessfulOpenIsProtected ==
    (C31_OpenWithTargets /\ result.success) =>
        /\ result.ordered
        /\ result.installed = {"stop_loss", "take_profit"}

C31_SuccessfulOpenWithTargets == C31_OpenWithTargets /\ result.success

\* C39: an open or close whose market order the venue filled is recorded with
\* success = true, and an action recorded with success = false left the
\* venue's positions as they were; a failure while installing the stop-loss
\* and take-profit after the fill does not make the record a failed one.
C39_RecordAgreesWithVenue ==
    result.fn = "execute" =>
        /\ result.filled > 0 => result.success
        /\ ~result.success => result.after = result.before

(***************************************************************************)
(* Properties of the market-data fetch of a context (SpecFetchContext)     *)
(***************************************************************************)
C33_FetchSet == SymbolSet(args.positions, args.candidate_coins)
C33_OiKnown(s) == args.upstream[s].oi.kind = "ok" /\ args.upstream[s].oi.data # <<>>
C33_Liquid(s) ==
    LET data == args.upstream[s].oi.data
    IN data[Len(data)] * args.upstream[s].close >= MinOiValueMillions

\* C33: the assembly does not raise; the market-data map holds no symbol
\* outside the fetch set and none whose snapshot fetch failed; a held symbol
\* whose fetch succeeded is in it, and so is a candidate whose fetch succeeded
\* exactly when its open-interest value passes the liquidity filter (nothing
\* is said here about a candidate whose open interest is unknown), so a
\* failed fetch removes only its own symbol; and the map is the same whether
\* the OI Top statistics load or fail.
C33_FailureDropsOnlyItsSymbol ==
    result.fn = "fetch_context" =>
        /\ ~result.raised
        /\ DOMAIN result.market_data_map \subseteq
              {s \in C33_FetchSet : args.upstream[s].klines_ok}
        /\ \A s \in C33_FetchSet :
              /\ (args.upstream[s].klines_ok /\ s \in args.positions)
                    => s \in DOMAIN result.market_data_map
              /\ (args.upstream[s].klines_ok /\ s \notin args.positions /\ C33_OiKnown(s))
                    => (s \in DOMAIN result.market_data_map <=> C33_Liquid(s))
        /\ ~args.oi_top.ok => result.oi_top_data_map = {}

\* a fetch set of two symbols: the first one visited fails, the other one is kept
C33_Witness ==
    /\ result.fn = "fetch_context"
    /\ Len(args.order) = 2
    /\ ~args.upstream[args.order[1]].klines_ok
    /\ DOMAIN result.market_data_map = {args.order[2]}
    /\ ~args.oi_top.ok

C34_UnknownOi(s) == args.upstream[s].klines_ok /\ ~C33_OiKnown(s)

\* C34: when a symbol's open-interest history cannot be fetched or is empty,
\* its snapshot carries a null open_interest, never the value 0, and the
\* symbol is not dropped by the liquidity filter.
C34_UnknownOiIsNull ==
    result.fn = "fetch_context" =>
        \A s \in C33_FetchSet :
            C34_UnknownOi(s) =>
                /\ s \in DOMAIN result.market_data_map
                /\ result.market_data_map[s].open_interest = NoOIData

(***************************************************************************)
(* Properties of one feed call (checked under SpecFeed)                    *)
(***************************************************************************)
C35_FetchSucceeded ==
    /\ result.fn = "feed"
    /\ args.api_url
    /\ ~args.use_default_coins
    /\ args.up.ok
    /\ args.up.data # <<>>

\* C35: when the upstream fetch of a feed succeeds, the operation returns the
\* freshly fetched list, also when writing the cache file fails; and when the
\* write succeeds the cache file holds that list afterwards.
C35_FreshListReturned ==
    C35_FetchSucceeded =>
        /\ ~result.raised
        /\ result.value = args.up.data
        /\ args.save = "ok" =>
              /\ cache_files[args.feed].st = "ok"
              /\ cache_files[args.feed].content = args.up.data

(***************************************************************************)
(* Termination of the run loop (checked under SpecLifeFair)                *)
(***************************************************************************)
\* C32: once stop() has cleared is_running while a task is inside run()'s
\* loop, that task ends by its own steps (unless the trader is started
\* again): neither the expiry of the inter-cycle sleep nor a cancellation by
\* stop_all is needed for it.
C32_StoppedRunTerminates ==
    \A t \in TaskIds :
        (tasks[t].st \in {"cycle", "sleep"} /\ is_running = FALSE)
            ~> (~Live(t) \/ is_running = TRUE)

(***************************************************************************)
(* Properties of the cycle counters (checked under SpecCounters)           *)
(***************************************************************************)
\* C38: every run_cycle that runs to completion hands exactly one record to
\* log_decision, and when it has returned DecisionLogger.cycle_number equals
\* AutoTrader.call_count and the cycle number its prompt showed equals the
\* cycle_number of its record.
C38_CountersAgree ==
    /\ cycle_number = Len(appended)
    /\ \A k \in 1..Len(appended) :
          /\ appended[k].cycle_number = appended[k].call_count
          /\ appended[k].prompted => appended[k].prompt = appended[k].cycle_number

(***************************************************************************)
(* Properties of the decision log (checked under SpecLog)                  *)
(***************************************************************************)
\* C6: the cycle_number of the records of the trader's log directory is
\* strictly increasing in append order.
C6_CycleNumberStrictlyIncreasing ==
    \A j \in 1..Len(logDir) : \A k \in 1..Len(logDir) :
        j < k => logDir[j].cycle_number < logDir[k].cycle_number

\* C20: whatever happens during an append (the write fails, the process
\* stops in it), the record's file is afterwards absent from the log
\* directory or a complete JSON document: no decision_*.json file with a
\* partially written text is there for get_latest_records or
\* analyze_performance to find.
C20_FileAbsentOrComplete ==
    \A j \in 1..Len(logDir) : logDir[j].complete

(***************************************************************************)
(* Properties of the run loop (checked under SpecLife)                     *)
(***************************************************************************)
InCycle == {t \in TaskIds : tasks[t].st = "cycle"}

\* C3: at most one run_cycle of the trader is in progress at any time.
C3_CyclesAreSerial == Cardinality(InCycle) <= 1

\* C4: once stop_all has returned, every run loop started before is over.
C4_NoTaskLeftAfterStopAll ==
    sa_pc = "returned" => \A t \in TaskIds : ~Live(t)

\* C5: a loop that is in its inter-cycle sleep when the trader is stopped (and
\* not started again) starts no further run_cycle.
C5_NoCycleAfterStopInSleep ==
    [][ \A t \in TaskIds :
          (/\ tasks[t].st = "sleep"
           /\ ~is_running
           /\ \A u \in TaskIds : tasks[u].st # "created")
          => tasks'[t].st # "cycle" ]_vars

(***************************************************************************)
(* WebSocketClient: connect, the read_messages task with its reconnect,    *)
(* and close().  Each action is the code between two awaits.  A connection *)
(* object is an entry of client.conns (TRUE while it is open); client.ws   *)
(* is the index self.ws refers to, 0 for None; client.held is the object   *)
(* the read task is awaiting on.                                           *)
(***************************************************************************)
wsOnlyUnchanged ==
    UNCHANGED <<cycleVars, is_running, tasks, trader_tasks, sa_pc, sa_tasks, manager,
                coros, database, venue, trader, fnVars>>

\* `self.ws = await websockets.connect(...)` succeeding: a new open connection,
\* self.running = True
Connected(c) ==
    [c EXCEPT !.conns = Append(@, TRUE),
              !.ws = Len(c.conns) + 1,
              !.running = TRUE,
              !.after.connected = @ \/ c.closer = "returned"]

\* the head of read_messages' loop, up to its next await
ReadMessages(c) ==
    IF ~c.running THEN [c EXCEPT !.reader = "done"]
    ELSE IF c.ws = 0 THEN [c EXCEPT !.reader = "sleep1"]
    ELSE [c EXCEPT !.reader = "recv", !.held = c.ws]

\* _reconnect's except clause: retry while self.reconnect, else return to the loop
ReconnectFailed(c) ==
    IF c.reconnect THEN [c EXCEPT !.reader = "reconnect_sleep"]
    ELSE ReadMessages(c)

\* _reconnect after connect() has returned: re-subscribe all streams
Resubscribe(c) ==
    IF ~c.subscribers THEN ReadMessages(c)
    ELSE IF c.ws = 0 THEN ReconnectFailed(c)
    ELSE [c EXCEPT !.reader = "subscribing", !.held = c.ws]

\* the owner's connect() before the read task exists
WsConnect ==
    /\ client.reader = "unborn"
    /\ client.closer = "idle"
    /\ client.ws = 0
    /\ \E ok \in BOOLEAN :
         client' = IF ok /\ Len(client.conns) < MaxConnections
                   THEN Connected(client) ELSE client
    /\ wsOnlyUnchanged

AddSubscriber ==
    /\ client.closer = "idle"
    /\ ~client.subscribers
    /\ client' = [client EXCEPT !.subscribers = TRUE]
    /\ wsOnlyUnchanged

\* the task running read_messages starts
ReadStart ==
    /\ client.reader = "unborn"
    /\ client' = ReadMessages(client)
    /\ wsOnlyUnchanged

\* `await asyncio.sleep(1)` while self.ws is None is over
Sleep1Done ==
    /\ client.reader = "sleep1"
    /\ client' = ReadMessages(client)
    /\ wsOnlyUnchanged

\* `await self.ws.recv()` returns a message, or raises ConnectionClosed
Recv ==
    /\ client.reader = "recv"
    /\ client' = IF client.conns[client.held] THEN ReadMessages(client)
                 ELSE IF client.reconnect
                      THEN [client EXCEPT !.reader = "reconnect_sleep"]
                      ELSE [client EXCEPT !.reader = "done"]
    /\ wsOnlyUnchanged

\* the peer or the network drops an open connection
ConnectionDrops ==
    /\ \E i \in 1..Len(client.conns) :
         /\ client.conns[i]
         /\ client' = [client EXCEPT !.conns[i] = FALSE]
    /\ wsOnlyUnchanged

\* _reconnect: `await asyncio.sleep(3)` is over, connect() is awaited
ReconnectWake ==
    /\ client.reader = "reconnect_sleep"
    /\ client' = [client EXCEPT !.reader = "connecting"]
    /\ wsOnlyUnchanged

\* _reconnect: connect() returns (True or False), the re-subscription begins
ReconnectConnect ==
    /\ client.reader = "connecting"
    /\ \E ok \in BOOLEAN :
         client' = IF ok /\ Len(client.conns) < MaxConnections
                   THEN Resubscribe(Connected(client)) ELSE Resubscribe(client)
    /\ wsOnlyUnchanged

\* subscribe: `await self.ws.send(...)` returns, or raises on a closed connection
SubscribeSend ==
    /\ client.reader = "subscribing"
    /\ client' = IF client.conns[client.held]
                 THEN [client EXCEPT !.reader = "resub_sleep",
                                     !.after.subscribed = @ \/ client.closer = "returned"]
                 ELSE ReconnectFailed(client)
    /\ wsOnlyUnchanged

\* _reconnect: `await asyncio.sleep(0.1)` after the batch is over, back to the loop
ResubscribeDone ==
    /\ client.reader = "resub_sleep"
    /\ client' = ReadMessages(client)
    /\ wsOnlyUnchanged

\* close() up to `await self.ws.close()`, or to its return when self.ws is None
WsCloseBegin ==
    /\ client.closer = "idle"
    /\ client' = IF client.ws # 0
                 THEN [client EXCEPT !.reconnect = FALSE, !.running = FALSE,
                                     !.closer = "closing", !.conns[client.ws] = FALSE]
                 ELSE [client EXCEPT !.reconnect = FALSE, !.running = FALSE,
                                     !.closer = "returned"]
    /\ wsOnlyUnchanged

\* close(): ws.close() is over, self.ws = None, the queues are drained, return
WsCloseEnd ==
    /\ client.closer = "closing"
    /\ client' = [client EXCEPT !.ws = 0, !.closer = "returned"]
    /\ wsOnlyUnchanged

InitWs ==
    /\ RestIdle
    /\ args = NoCall
    /\ result = NoCall
    /\ cache_files = NoFiles

NextWs ==
    \/ WsConnect
    \/ AddSubscriber
    \/ ReadStart
    \/ Sleep1Done
    \/ Recv
    \/ ConnectionDrops
    \/ ReconnectWake
    \/ ReconnectConnect
    \/ SubscribeSend
    \/ ResubscribeDone
    \/ WsCloseBegin
    \/ WsCloseEnd

SpecWs == InitWs /\ [][NextWs]_vars

(***************************************************************************)
(* Properties of the WebSocket client (checked under SpecWs)               *)
(***************************************************************************)
\* C40: after close() has returned the client stays closed: it establishes no
\* new connection, running stays false and no subscription is re-sent, also
\* when close() is called while a reconnect after a dropped connection is in
\* progress.
C40_StaysClosed ==
    client.closer = "returned" =>
        /\ ~client.running
        /\ ~client.after.connected
        /\ ~client.after.subscribed

====
